---- MODULE Spec2Model ----
(***************************************************************************)
(* Verification model of the voice-assistant pipeline                      *)
(* (github.com/agalue/voice-assistant, Go implementation).                 *)
(*                                                                         *)
(* The specifications of this module:                                      *)
(*   Spec        the orchestrated pipeline of cmd/assistant/main.go: the   *)
(*               capture consumer feeding the recognizer, the STT, LLM and *)
(*               TTS goroutines, Player.Play and the output callback;      *)
(*   SpecPlay    the STT, LLM and TTS goroutines and the player, started   *)
(*               with a reply and a segment queued, under fair scheduling  *)
(*               of the goroutines;                                        *)
(*   SpecRing    the same workers with the playback ring as an array with  *)
(*               its atomic head and tail positions;                       *)
(*   SpecCapture the capture ring of the audio package with its callback,  *)
(*               its consumer loop, Pause/Resume and Stop;                 *)
(*   SpecChat    the llm.Client conversation history;                      *)
(*   SpecShutdown the pipeline and main() from the shutdown signal on;     *)
(*   SpecStt     the capture consumer, the recognizer and the STT          *)
(*               goroutine with the text of each transcription;            *)
(*   SpecWake    Recognizer.TranscribeSegment on one decoded text;         *)
(*   SpecSplit   SplitSentences on one reply;                              *)
(*   SpecThreads the thread counts from the flags to the models;           *)
(*   SpecSlots   the capture ring as an array of slots, sample by sample;  *)
(*   SpecSegments the recognizer's segment channel, nearly full, between   *)
(*               AcceptWaveform and the STT goroutine;                     *)
(*   SpecDropLog the capture callback on a full ring, with the log line    *)
(*               of every 100th dropped chunk.                             *)
(*                                                                         *)
(* Spec, SpecPlay and SpecRing cover the runs between start-up and the     *)
(* shutdown signal: context cancellation and Player.Close are not part of  *)
(* them.  Each atomic load, store or channel operation of a goroutine or   *)
(* device callback is one step, and a critical section is one step, so     *)
(* that every interleaving of the goroutines and the callbacks is          *)
(* explored.                                                               *)
(***************************************************************************)
EXTENDS Integers, Sequences, FiniteSets

(***************************************************************************)
(* Bounds of the model.                                                    *)
(***************************************************************************)
\* speech segments the voice-activity detector completes in one run
MaxSegments == 2
\* sentences SplitSentences can return for one reply
MaxSentences == 2
\* samples one synthesized sentence holds
SentenceLen == 2
\* frames the device asks for in one output callback
FrameCount == 1
\* capacity of the playback ring (playbackRingSize, scaled down)
PlaybackRingCap == 3
\* capacity of the capture ring (ringBufferSize, scaled down)
CaptureRingCap == 2
\* chunks the capture callback receives in one run
MaxChunks == 4
\* Chat / ClearHistory calls in one run of SpecChat
MaxChats == 6
\* largest configured history size (message pairs) explored
MaxHistoryPairs == 2
\* largest value of playbackRing.tail followed in SpecRing
MaxRingPos == 7
\* consecutive Pause calls on the capturer followed in SpecCapture
MaxPauseRun == 3
\* characters of a decoded text in SpecWake
MaxTextLen == 5
\* characters of a reply in SpecSplit
MaxReplyLen == 5
\* sentences of the replies the model returns: none, or MaxSentences (the
\* apology for a failed chat is the reply of one sentence)
ReplySizes == {0, MaxSentences}
\* online CPUs of the machines explored in SpecThreads
MaxCpus == 9
\* largest thread setting given on the command line in SpecThreads
MaxThreadFlag == 2
\* samples of one captured chunk in SpecSlots
ChunkLen == 2
\* log lines about dropped chunks that push writes in SpecDropLog
MaxDropLogs == 1

(***************************************************************************)
(* Program constants.                                                      *)
(***************************************************************************)
\* make(chan []float32, 5)
SegmentChanCap == 5
\* transcriptions := make(chan string, 5)
TranscriptionsCap == 5
\* responses := make(chan string, 5)
ResponsesCap == 5
\* push: if count%100 == 0 { log.Printf(...) }
DropLogEvery == 100

InterruptAlways == "always"
InterruptWait == "wait"

VARIABLES
    \* ---- configuration ----
    mode,               \* cfg.InterruptMode
    maxHistory,         \* Client.maxHistory
    \* ---- Recognizer.TranscribeSegment on one decoded text (SpecWake) ----
    wakeWord,           \* Recognizer.wakeWord
    resultText,         \* result.Text of the decoded stream
    forwarded,          \* the string TranscribeSegment returned
    wakePc,             \* "call" before the call, "done" after it
    \* ---- SplitSentences on one reply (SpecSplit) ----
    replyText,          \* the argument text
    sentences,          \* the slice returned
    splitPc,            \* "call" before the call, "done" after it
    \* ---- start-up: thread counts (SpecThreads) ----
    cpuCores,           \* runtime.NumCPU()
    flags,              \* the thread settings as parsed from the command line
    cfg,                \* the thread fields of config.Config
    modelThreads,       \* NumThreads of the sherpa model configurations
    cfgPc,              \* position of the start-up sequence
    \* ---- capture ring as an array of slots (SpecSlots) ----
    capHead,            \* ringBuffer.head
    capTail,            \* ringBuffer.tail
    chunks,             \* ringBuffer.chunks: the samples of every slot
    recvPc,             \* position of onRecvFrames inside push
    recvHead,           \* push: the value loaded from head
    recvI,              \* push: the sample copy() writes next
    popPc,              \* position of processLoop
    popSlot,            \* processLoop: the slot its slice samples points into
    samplesCopy,        \* processLoop: samplesCopy, as far as copied
    handedChunks,       \* the chunks given to onSamples, in order
    \* ---- main: shutdown ----
    mainPc,             \* position of main()
    ctxDone,            \* cancel() was called: ctx.Done() is closed
    transClosed,        \* close(transcriptions) was called
    panicked,           \* a goroutine panicked: the process is gone
    \* ---- shared flags ----
    playbackInterrupt,  \* main: var playbackInterrupt atomic.Bool
    running,            \* Capturer.running
    \* ---- recognizer / voice-activity detector ----
    vadSpeech,          \* vad.IsSpeech()
    vadPending,         \* completed segments still inside the detector
    segsMade,           \* segments completed so far (identifies segments)
    consPc,             \* position of the capture consumer
    consSeg,            \* segment popped by AcceptWaveform, not yet sent
    segmentChan,        \* Recognizer.segmentChan
    mu,                 \* holder of Recognizer.mu, the lock around the detector
    \* ---- STT goroutine ----
    sttPc, sttSeg,
    sttText,            \* text returned by TranscribeSegment, until sent
    transcriptions,
    transcriptLog,      \* every transcript put on transcriptions, in order
    textLog,            \* the text of each of them
    \* ---- LLM goroutine ----
    llmPc, llmMsg,
    responses,
    replyLog,           \* every reply put on responses, in order
    history,            \* Client.history
    chatResult,         \* outcome of the last Client.Chat call
    chatCalls,          \* calls made on the client so far
    chatLog,            \* every call made on the client with its outcome
    \* ---- TTS goroutine ----
    ttsPc, ttsCur, ttsIdx, wasInterrupted,
    sentenceLog,        \* what became of each sentence of the reply in hand
                        \* (empty while ttsProcessor waits for a reply)
    \* ---- player ----
    ring,               \* playbackRing contents between tail and head
    playing,            \* Player.playing
    playerIntr,         \* Player.interrupt
    completeChan,       \* Player.completeChan (capacity 1)
    cbPc, cbIntr, cbI,  \* output callback: position, its flag read, frame index
    \* ---- playbackRing with its atomic positions (SpecRing) ----
    head, tail,         \* playbackRing.head, playbackRing.tail
    ringSamples,        \* playbackRing.samples
    pushHead, pushTail, \* push: its reads of head and tail
    popHead, popTail,   \* pop: its reads of head and tail
    clearHead,          \* clear: its read of head
    maxOut,             \* latest sentence of the latest reply heard so far
    orderBroken,        \* a sample of an earlier sentence was heard after it
    \* ---- capture ring ----
    capRing,            \* ringBuffer chunks between tail and head
    dropCount,          \* ringBuffer.dropCount
    procPc, procChunk,  \* processLoop: position, popped chunk
    stopChan,           \* Capturer.stopChan: "open" or "closed"
    device,             \* Capturer.device: "started" or "stopped"
    produced, delivered,\* chunks handed to push / to onSamples
    lastCall,           \* last of Pause, Resume, Stop called on the capturer
    pauseRun,           \* Pause calls in the latest run of consecutive ones
    deliveredAtResume,  \* value of delivered at the last Resume
    \* ---- the standard logger (SpecDropLog) ----
    logMu,              \* holder of the mutex of the log package's logger
    recvLogPc,          \* capture callback: position in push's log.Printf
    \* ---- history variables used by the properties ----
    flagBy,             \* segment whose handling last stored true in the flag
    hit,                \* reply interrupted while being synthesized or played
    interruptedReplies, \* replies with samples queued when an output callback
                        \* found the flag set (always mode)
    staleOut            \* a sample of such a reply reached the device later

confVars == <<mode, maxHistory>>
threadVars == <<cpuCores, flags, cfg, modelThreads, cfgPc>>
slotVars == <<capHead, capTail, chunks, recvPc, recvHead, recvI, popPc,
              popSlot, samplesCopy, handedChunks>>
logVars == <<logMu, recvLogPc>>
unitVars == <<threadVars, slotVars, logVars>>
pureVars == <<wakeWord, resultText, forwarded, wakePc,
              replyText, sentences, splitPc, unitVars>>
shutVars == <<mainPc, ctxDone, transClosed, panicked>>
vadVars == <<vadSpeech, vadPending, segsMade, consPc, consSeg, segmentChan, mu>>
sttVars == <<sttPc, sttSeg, sttText, transcriptions, transcriptLog, textLog>>
llmVars == <<llmPc, llmMsg, responses, replyLog>>
chatVars == <<history, chatResult, chatCalls, chatLog>>
ttsVars == <<ttsPc, ttsCur, ttsIdx, wasInterrupted, sentenceLog>>
playerVars == <<ring, playing, playerIntr, completeChan>>
cbVars == <<cbPc, cbIntr, cbI, staleOut, interruptedReplies>>
callVars == <<lastCall, pauseRun, deliveredAtResume>>
captureVars == <<capRing, dropCount, procPc, procChunk, produced, delivered,
                 stopChan, device, callVars>>
ringVars == <<head, tail, ringSamples, pushHead, pushTail, popHead, popTail,
              clearHead, maxOut, orderBroken>>
ghostVars == <<flagBy, hit>>

vars == <<confVars, pureVars, shutVars, playbackInterrupt, running, vadVars, sttVars, llmVars,
          chatVars, ttsVars, playerVars, cbVars, ringVars, captureVars, ghostVars>>

NoReply == [id |-> 0, n |-> 0]
NoHit == [r |-> 0, k |-> 0, q |-> {}]
\* the value of a slot of playbackRing.samples that was never written
NoSample == [r |-> 0, s |-> 0]

Min(a, b) == IF a < b THEN a ELSE b

(***************************************************************************)
(* llm.Client: conversation history.                                       *)
(***************************************************************************)
SystemTurn == [role |-> "system", id |-> 0]
UserTurn(u) == [role |-> "user", id |-> u]
AssistantTurn(u) == [role |-> "assistant", id |-> u]

\* NewClient: history starts with the system prompt at index 0
NewHistory == <<SystemTurn>>

\* a trim that cuts the tail of the history instead of its oldest pairs
trimKeepsOldest(h, mh) ==
    LET maxMessages == 1 + mh * 2
    IN  IF Len(h) > maxMessages THEN SubSeq(h, 1, maxMessages) ELSE h

\* Client.trimHistory
trimHistory(h, mh) ==
    LET maxMessages == 1 + mh * 2
    IN  IF Len(h) > maxMessages
        THEN <<h[1]>> \o SubSeq(h, Len(h) - mh * 2 + 1, Len(h))
        ELSE h

\* Client.Chat, the request succeeded: user turn, assistant turn, trim
ChatSucceeded(h, u, mh) ==
    trimHistory(Append(Append(h, UserTurn(u)), AssistantTurn(u)), mh)

\* Client.Chat, the request failed: returns after the user turn was appended
ChatFailed(h, u) == Append(h, UserTurn(u))

\* Client.ClearHistory
ClearedHistory(h) == SubSeq(h, 1, 1)

(***************************************************************************)
(* Strings, and Recognizer.TranscribeSegment from the decoded text on.  A  *)
(* string is a sequence of characters; "H" is the upper-case form of "h".  *)
(***************************************************************************)
\* the characters of the decoded texts
TextChars == {"H", "h", "i", "x", " ", ","}

\* the wake words explored: none configured, or "hi" (NewRecognizer stores
\* the configured word lower-cased)
WakeWords == {<<>>, <<"h", "i">>}

\* the strings of at most n characters
TextsUpTo(n) == UNION {[1..k -> TextChars] : k \in 0..n}

\* unicode.ToLower on one character
LowerChar(c) == IF c = "H" THEN "h" ELSE c

\* strings.ToLower
ToLower(str) == [i \in 1..Len(str) |-> LowerChar(str[i])]

\* strings.Index: the first position (from 0) of substr in str, or -1
Index(str, substr) ==
    LET at == {i \in 0..(Len(str) - Len(substr)) :
                  SubSeq(str, i + 1, i + Len(substr)) = substr}
    IN  IF at = {} THEN -1 ELSE CHOOSE i \in at : \A j \in at : i <= j

\* strings.Contains
Contains(str, substr) == Index(str, substr) # -1

\* strings.TrimLeft
TrimLeft(str, cutset) ==
    LET keep == {i \in 1..Len(str) : str[i] \notin cutset}
    IN  IF keep = {} THEN <<>>
        ELSE SubSeq(str, CHOOSE i \in keep : \A j \in keep : i <= j, Len(str))

\* the white space of the texts: space and newline
WhiteSpace == {" ", "\n"}

\* strings.TrimSpace
TrimSpace(str) ==
    LET keep == {i \in 1..Len(str) : str[i] \notin WhiteSpace}
    IN  IF keep = {} THEN <<>>
        ELSE SubSeq(str, CHOOSE i \in keep : \A j \in keep : i <= j,
                         CHOOSE i \in keep : \A j \in keep : j <= i)

\* the cutset of removeWakeWord, " ,.!?;:-'\""
WakeCutset == {" ", ",", ".", "!", "?", ";", ":", "-", "'", "\""}

\* removeWakeWord
removeWakeWord(txt, wake) ==
    LET lowerText == ToLower(txt)
        lowerWake == ToLower(wake)
        idx == Index(lowerText, lowerWake)
    IN  IF idx = -1 THEN txt
        ELSE LET result == SubSeq(txt, 1, idx)
                              \o SubSeq(txt, idx + Len(wake) + 1, Len(txt))
             IN  TrimSpace(TrimLeft(result, WakeCutset))

Hello == <<"H", "e", "l", "l", "o">>

\* Recognizer.TranscribeSegment from text := strings.TrimSpace(result.Text)
\* to its return; <<>> is the empty string
TranscribedText(raw, wake) ==
    LET txt == TrimSpace(raw)
    IN  IF txt = <<>> THEN <<>>
        ELSE IF wake # <<>>
        THEN IF ~Contains(ToLower(txt), wake) THEN <<>>
             ELSE LET rest == TrimSpace(removeWakeWord(txt, wake))
                  IN  IF rest = <<>> THEN Hello ELSE rest
        ELSE txt

\* the decoded texts explored in the pipeline: empty, blank, without the
\* wake word, the wake word alone, the wake word and a request
DecodedTexts(wake) ==
    {<<>>, <<" ">>, <<"x">>}
        \cup (IF wake = <<>> THEN {}
              ELSE {wake, <<"H">> \o Tail(wake) \o <<",", " ", "x">>})

(***************************************************************************)
(* Initial values shared by the specifications.                            *)
(***************************************************************************)
\* the values of the variables of the single-function specifications while
\* another specification runs
\* the thread settings of a start-up that is over
IdleThreads ==
    /\ cpuCores = 1
    /\ flags = [NumThreads |-> 0, VADThreads |-> 0, STTThreads |-> 0,
                TTSThreads |-> 0]
    /\ cfg = flags
    /\ modelThreads = [vad |-> 0, stt |-> 0, tts |-> 0]
    /\ cfgPc = "done"

\* newRingBuffer, and the callback and the consumer between two chunks
IdleSlots ==
    /\ capHead = 0 /\ capTail = 0
    /\ chunks = [i \in 0..(CaptureRingCap - 1) |-> [j \in 1..ChunkLen |-> 0]]
    /\ recvPc = "idle" /\ recvHead = 0 /\ recvI = 0
    /\ popPc = "pop" /\ popSlot = 0 /\ samplesCopy = <<>>
    /\ handedChunks = <<>>

\* nobody is writing a log line
IdleLog == logMu = "free" /\ recvLogPc = "idle"

InitUnitsIdle == IdleThreads /\ IdleSlots /\ IdleLog

InitIdle ==
    /\ wakeWord = <<>> /\ resultText = <<>> /\ forwarded = <<>>
    /\ wakePc = "done"
    /\ replyText = <<>> /\ sentences = <<>> /\ splitPc = "done"
    /\ InitUnitsIdle

\* main waiting at <-sigChan
InitMain ==
    /\ mainPc = "run" /\ ctxDone = FALSE /\ transClosed = FALSE
    /\ panicked = FALSE

\* NewPlayer and ttsProcessor at its first receive
InitPlayer ==
    /\ ttsPc = "select" /\ ttsCur = NoReply /\ ttsIdx = 0
    /\ wasInterrupted = FALSE /\ sentenceLog = <<>>
    /\ ring = <<>> /\ playing = FALSE /\ playerIntr = FALSE
    /\ completeChan = FALSE
    /\ cbPc = "idle" /\ cbIntr = FALSE /\ cbI = 0
    /\ head = 0 /\ tail = 0
    /\ ringSamples = [i \in 0..(PlaybackRingCap - 1) |-> NoSample]
    /\ pushHead = 0 /\ pushTail = 0 /\ popHead = 0 /\ popTail = 0
    /\ clearHead = 0
    /\ maxOut = NoSample /\ orderBroken = FALSE
    /\ staleOut = FALSE
    /\ flagBy = 0 /\ hit = NoHit /\ interruptedReplies = {}

InitPipeline ==
    /\ playbackInterrupt = FALSE
    /\ running = TRUE
    /\ vadSpeech = FALSE /\ vadPending = 0 /\ segsMade = 0
    /\ consPc = "idle" /\ consSeg = 0
    /\ segmentChan = <<>> /\ mu = "free"
    /\ sttPc = "select" /\ sttSeg = 0 /\ sttText = <<>>
    /\ transcriptions = <<>> /\ transcriptLog = <<>> /\ textLog = <<>>
    /\ llmPc = "select" /\ llmMsg = NoReply
    /\ responses = <<>> /\ replyLog = <<>>
    /\ InitPlayer /\ InitMain

InitCapture ==
    /\ capRing = <<>> /\ dropCount = 0
    /\ procPc = "pop" /\ procChunk = 0
    /\ produced = 0 /\ delivered = 0
    /\ stopChan = "open" /\ device = "started"
    /\ lastCall = "start" /\ pauseRun = 0 /\ deliveredAtResume = 0

InitClient ==
    /\ history = NewHistory
    /\ chatResult = "none"
    /\ chatCalls = 0
    /\ chatLog = <<>>

(***************************************************************************)
(* SpecChat: any sequence of Chat and ClearHistory calls on one client.    *)
(***************************************************************************)
InitChat ==
    /\ mode = InterruptWait
    /\ maxHistory \in 1..MaxHistoryPairs
    /\ InitPipeline /\ InitCapture /\ InitClient /\ InitIdle

\* Client.Chat returning a response
ChatOk ==
    /\ chatCalls < MaxChats
    /\ chatCalls' = chatCalls + 1
    /\ history' = ChatSucceeded(history, chatCalls + 1, maxHistory)
    /\ chatResult' = "ok"
    /\ chatLog' = Append(chatLog, [id |-> chatCalls + 1, result |-> "ok"])
    /\ UNCHANGED <<confVars, pureVars, shutVars, ringVars, playbackInterrupt, running, vadVars, sttVars,
                   llmVars, ttsVars, playerVars, cbVars, captureVars, ghostVars>>

\* Client.Chat returning "chat request failed"
ChatError ==
    /\ chatCalls < MaxChats
    /\ chatCalls' = chatCalls + 1
    /\ history' = ChatFailed(history, chatCalls + 1)
    /\ chatResult' = "error"
    /\ chatLog' = Append(chatLog, [id |-> chatCalls + 1, result |-> "error"])
    /\ UNCHANGED <<confVars, pureVars, shutVars, ringVars, playbackInterrupt, running, vadVars, sttVars,
                   llmVars, ttsVars, playerVars, cbVars, captureVars, ghostVars>>

\* Client.ClearHistory
ClearHistory ==
    /\ chatCalls < MaxChats
    /\ chatCalls' = chatCalls + 1
    /\ history' = ClearedHistory(history)
    /\ chatResult' = "cleared"
    /\ chatLog' = Append(chatLog, [id |-> chatCalls + 1, result |-> "cleared"])
    /\ UNCHANGED <<confVars, pureVars, shutVars, ringVars, playbackInterrupt, running, vadVars, sttVars,
                   llmVars, ttsVars, playerVars, cbVars, captureVars, ghostVars>>

NextChat == ChatOk \/ ChatError \/ ClearHistory

SpecChat == InitChat /\ [][NextChat]_vars

\* C9: after any sequence of chat() and clear_history() calls the history
\* holds at most 1 + 2*max_history turns and its first turn is the system turn.
C9_HistoryBounded ==
    /\ Len(history) <= 1 + 2 * maxHistory
    /\ history[1] = SystemTurn

\* C10: a chat() call that fails leaves the history exactly as it was
\* before the call.
C10_FailedChatKeepsHistory ==
    [][(chatCalls' = chatCalls + 1 /\ chatResult' = "error") => history' = history]_vars

\* the calls made since the history last held the system turn only
RunSinceFresh ==
    LET resets == {i \in 1..Len(chatLog) : chatLog[i].result = "cleared"}
        last == IF resets = {} THEN 0
                ELSE CHOOSE i \in resets : \A j \in resets : j <= i
    IN  SubSeq(chatLog, last + 1, Len(chatLog))

\* C12: K successful chat() calls on a history that held only the system turn
\* leave min(1 + 2K, 1 + 2*max_history) turns: the system turn at index 0,
\* then the most recent user/assistant pairs in order.
C12_HistoryAfterKChats ==
    LET run == RunSinceFresh
        K == Len(run)
        kept == Min(K, maxHistory)
    IN  (\A i \in 1..K : run[i].result = "ok") =>
            /\ Len(history) = Min(1 + 2 * K, 1 + 2 * maxHistory)
            /\ history[1] = SystemTurn
            /\ \A j \in 1..kept :
                  /\ history[2 * j] = UserTurn(run[K - kept + j].id)
                  /\ history[2 * j + 1] = AssistantTurn(run[K - kept + j].id)

\* C12 witness: after a clear_history(), more successful chats than the
\* history keeps pairs, so that the oldest pair was trimmed away.
C12_Witness ==
    /\ Len(RunSinceFresh) < Len(chatLog)
    /\ Len(RunSinceFresh) > maxHistory
    /\ \A i \in 1..Len(RunSinceFresh) : RunSinceFresh[i].result = "ok"

\* C40: after any sequence of chat() calls the turns after the system turn
\* alternate user, assistant, user, ..., beginning with a user turn.
C40_TurnsAlternate ==
    \A i \in 2..Len(history) :
        history[i].role = IF i % 2 = 0 THEN "user" ELSE "assistant"

(***************************************************************************)
(* SpecCapture: the capture ring, its producer (the device callback), its  *)
(* consumer (processLoop) and Pause/Resume called by another goroutine.    *)
(* A chunk is identified by its number in the order of production.         *)
(***************************************************************************)
InitCap ==
    /\ mode = InterruptWait
    /\ maxHistory = 1
    /\ InitPipeline /\ InitCapture /\ InitClient /\ InitIdle

capOther == <<confVars, pureVars, shutVars, ringVars, playbackInterrupt, vadVars, sttVars, llmVars, chatVars,
              ttsVars, playerVars, cbVars, ghostVars>>

\* ringBuffer.push: full -> count the drop and return false, else store
push(rb, chunk) ==
    IF Len(rb) >= CaptureRingCap THEN rb ELSE Append(rb, chunk)

\* Capturer.Start.onRecvFrames: returns at once while not running, else
\* the chunk is handed to push
OnRecvFrames ==
    /\ device = "started"
    /\ running
    /\ produced < MaxChunks
    /\ produced' = produced + 1
    /\ capRing' = push(capRing, produced + 1)
    /\ dropCount' = IF Len(capRing) >= CaptureRingCap
                    THEN dropCount + 1 ELSE dropCount
    /\ UNCHANGED <<running, procPc, procChunk, delivered, stopChan, device, callVars, capOther>>

\* processLoop: samples := c.ringBuf.pop() returned a chunk
ProcessPop ==
    /\ procPc = "pop"
    /\ stopChan = "open"
    /\ capRing # <<>>
    /\ procChunk' = Head(capRing)
    /\ capRing' = Tail(capRing)
    /\ procPc' = "check"
    /\ UNCHANGED <<running, dropCount, produced, delivered, stopChan, device, callVars, capOther>>

\* processLoop: the c.running.Load() test on the popped chunk; the chunk is
\* copied and given to onSamples, or the loop sleeps and pops the next one
ProcessChunk ==
    /\ procPc = "check"
    /\ delivered' = IF running THEN delivered + 1 ELSE delivered
    /\ procChunk' = 0
    /\ procPc' = "pop"
    /\ UNCHANGED <<running, capRing, dropCount, produced, stopChan, device, callVars, capOther>>

\* Capturer.Pause
Pause ==
    /\ (lastCall = "pause") => (pauseRun < MaxPauseRun)
    /\ running' = FALSE
    /\ lastCall' = "pause"
    /\ pauseRun' = IF lastCall = "pause" THEN pauseRun + 1 ELSE 1
    /\ UNCHANGED <<capRing, dropCount, procPc, procChunk, produced, delivered,
                   stopChan, device, deliveredAtResume, capOther>>

\* a Resume that undoes one Pause only, as if the Pause calls nested
ResumeNested ==
    /\ running' = (lastCall # "pause" \/ pauseRun <= 1)
    /\ lastCall' = "resume"
    /\ pauseRun' = IF lastCall = "pause" THEN pauseRun ELSE 0
    /\ deliveredAtResume' = delivered
    /\ UNCHANGED <<capRing, dropCount, procPc, procChunk, produced, delivered,
                   stopChan, device, capOther>>

\* Capturer.Resume
Resume ==
    /\ running' = TRUE
    /\ lastCall' = "resume"
    /\ pauseRun' = IF lastCall = "pause" THEN pauseRun ELSE 0
    /\ deliveredAtResume' = delivered
    /\ UNCHANGED <<capRing, dropCount, procPc, procChunk, produced, delivered,
                   stopChan, device, capOther>>

\* processLoop: the select at the head of the loop finds stopChan closed
ProcessExit ==
    /\ procPc = "pop"
    /\ stopChan = "closed"
    /\ procPc' = "done"
    /\ UNCHANGED <<running, capRing, dropCount, procChunk, produced, delivered,
                   stopChan, device, callVars, capOther>>

\* Capturer.Stop: c.running.Store(false); close(c.stopChan)
Stop ==
    /\ stopChan = "open"
    /\ running' = FALSE
    /\ stopChan' = "closed"
    /\ lastCall' = "stop"
    /\ UNCHANGED <<capRing, dropCount, procPc, procChunk, produced, delivered,
                   device, pauseRun, deliveredAtResume, capOther>>

\* Capturer.Stop: c.wg.Wait() returned, c.device.Stop()
StopDevice ==
    /\ stopChan = "closed"
    /\ procPc = "done"
    /\ device = "started"
    /\ device' = "stopped"
    /\ UNCHANGED <<running, capRing, dropCount, procPc, procChunk, produced,
                   delivered, stopChan, callVars, capOther>>

NextCapture ==
    \/ OnRecvFrames \/ ProcessPop \/ ProcessChunk \/ ProcessExit
    \/ Pause \/ Resume \/ Stop \/ StopDevice

SpecCapture == InitCap /\ [][NextCapture]_vars

\* C33: a chunk the capture callback produces while the ring is full is
\* stored: the oldest unread chunk is discarded for it, and the drop counter
\* goes up by one.
C33_OverflowDropsOldest ==
    [][(produced' = produced + 1 /\ Len(capRing) >= CaptureRingCap) =>
          /\ capRing' = Append(Tail(capRing), produced + 1)
          /\ dropCount' = dropCount + 1]_vars

\* C8: once the ring is empty and the consumer holds no chunk, every chunk
\* the callback produced was delivered to on_samples or counted as dropped.
C8_ChunkAccounting ==
    (capRing = <<>> /\ procPc = "pop") => delivered + dropCount = produced

\* C21: while the capturer is not shut down, one or more consecutive pause()
\* calls followed by one resume() leave it as a single resume() does: the
\* running flag is true, the device callback and the consumer loop are live
\* and chunks are delivered again.
C21_PausesThenResume ==
    (stopChan = "open" /\ lastCall = "resume") =>
        /\ running
        /\ device = "started"
        /\ procPc # "done"

\* C21 witness: two or more pause() calls, then one resume(), and a chunk
\* was delivered to on_samples after it.
C21_Witness ==
    /\ stopChan = "open" /\ lastCall = "resume"
    /\ pauseRun >= 2
    /\ delivered > deliveredAtResume

\* C20: once stop() was called on the capturer its running flag stays false;
\* no later resume() sets it again.
C20_StoppedStaysStopped ==
    (stopChan = "closed") => ~running

(***************************************************************************)
(* Spec: the pipeline wired by main().                                     *)
(*                                                                         *)
(* A segment is identified by its number in the order of completion; the   *)
(* transcript of segment i and the reply to it carry the same number.  A   *)
(* reply is [id, n]: n sentences returned by SplitSentences.  A sample in  *)
(* the playback ring is [r, s]: reply r, sentence s.                       *)
(***************************************************************************)
Init ==
    /\ mode \in {InterruptAlways, InterruptWait}
    /\ maxHistory = 1
    /\ InitPipeline /\ InitCapture /\ InitClient /\ InitIdle

\* ---------------- capture consumer and Recognizer.AcceptWaveform ---------

\* processLoop: an iteration in which pop returned a chunk and
\* c.running.Load() was true; onSamples is about to be called.  The device
\* delivers chunks while an utterance is being spoken or another one of the
\* MaxSegments utterances of the run may still come.
Deliver ==
    /\ consPc = "idle"
    /\ running
    /\ (segsMade < MaxSegments \/ vadSpeech)
    /\ consPc' = "accept"
    /\ UNCHANGED <<confVars, pureVars, shutVars, ringVars, playbackInterrupt, running, vadSpeech,
                   vadPending, segsMade, consSeg, segmentChan, mu, sttVars,
                   llmVars, chatVars, ttsVars, playerVars, cbVars, captureVars,
                   ghostVars>>

\* Recognizer.AcceptWaveform: r.mu.Lock()
AcceptLock ==
    /\ consPc = "accept"
    /\ mu = "free"
    /\ mu' = "consumer"
    /\ consPc' = "locked"
    /\ UNCHANGED <<confVars, pureVars, shutVars, ringVars, playbackInterrupt, running, vadSpeech,
                   vadPending, segsMade, consSeg, segmentChan, sttVars, llmVars,
                   chatVars, ttsVars, playerVars, cbVars, captureVars, ghostVars>>

\* an AcceptWaveform that keeps r.mu while it sends the segment
AcceptWaveformKeepsLock ==
    /\ consPc = "locked"
    /\ \E sp \in BOOLEAN, c \in 0..1 :
        /\ (c = 1) => (vadSpeech /\ segsMade < MaxSegments)
        /\ vadSpeech' = sp
        /\ segsMade' = segsMade + c
        /\ IF vadPending + c > 0
           THEN /\ consSeg' = segsMade + c - (vadPending + c) + 1
                /\ vadPending' = vadPending + c - 1
                /\ consPc' = "send"
                /\ mu' = "consumer"
           ELSE /\ consSeg' = 0
                /\ vadPending' = vadPending
                /\ consPc' = "idle"
                /\ mu' = "free"
    /\ UNCHANGED <<confVars, pureVars, shutVars, ringVars, playbackInterrupt, running, segmentChan, sttVars,
                   llmVars, chatVars, ttsVars, playerVars, cbVars, captureVars,
                   ghostVars>>

\* Recognizer.AcceptWaveform under r.mu: the detector takes the samples (it
\* may start or end speech and complete a segment), then one completed
\* segment, if any, is popped and copied; r.mu.Unlock()
AcceptWaveform ==
    /\ consPc = "locked"
    /\ mu' = "free"
    /\ \E sp \in BOOLEAN, c \in 0..1 :
        /\ (c = 1) => (vadSpeech /\ segsMade < MaxSegments)
        /\ vadSpeech' = sp
        /\ segsMade' = segsMade + c
        /\ IF vadPending + c > 0
           THEN /\ consSeg' = segsMade + c - (vadPending + c) + 1
                /\ vadPending' = vadPending + c - 1
                /\ consPc' = "send"
           ELSE /\ consSeg' = 0
                /\ vadPending' = vadPending
                /\ consPc' = "idle"
    /\ UNCHANGED <<confVars, pureVars, shutVars, ringVars, playbackInterrupt, running, segmentChan, sttVars,
                   llmVars, chatVars, ttsVars, playerVars, cbVars, captureVars,
                   ghostVars>>

\* a send that makes room for the new segment by discarding the oldest
AcceptSendDropsOldest ==
    /\ consPc = "send"
    /\ mu = "free"
    /\ segmentChan' = IF Len(segmentChan) < SegmentChanCap
                      THEN Append(segmentChan, consSeg)
                      ELSE Append(Tail(segmentChan), consSeg)
    /\ consSeg' = 0
    /\ consPc' = "idle"
    /\ UNCHANGED <<confVars, pureVars, shutVars, ringVars, playbackInterrupt, running, vadSpeech,
                   vadPending, segsMade, mu, sttVars, llmVars, chatVars, ttsVars,
                   playerVars, cbVars, captureVars, ghostVars>>

\* Recognizer.AcceptWaveform after the unlock: non-blocking send of the copy,
\* then r.mu is taken again and released at once
AcceptSend ==
    /\ consPc = "send"
    /\ mu = "free"
    /\ segmentChan' = IF Len(segmentChan) < SegmentChanCap
                      THEN Append(segmentChan, consSeg)
                      ELSE segmentChan
    /\ consSeg' = 0
    /\ consPc' = "idle"
    /\ UNCHANGED <<confVars, pureVars, shutVars, ringVars, playbackInterrupt, running, vadSpeech,
                   vadPending, segsMade, mu, sttVars, llmVars, chatVars, ttsVars,
                   playerVars, cbVars, captureVars, ghostVars>>

\* Recognizer.IsSpeechDetected
IsSpeechDetected == vadPending > 0 \/ vadSpeech

\* an IsSpeechDetected that returns without releasing r.mu
IsSpeechDetectedKeepsLock == "stt"

\* Recognizer.IsSpeechDetected: defer r.mu.Unlock(), the holder of r.mu once
\* the call has returned
IsSpeechDetectedUnlock == "free"

\* ---------------- sttProcessor -------------------------------------------

\* pcs at which ttsProcessor is synthesizing or playing a sentence
SynthPlayPcs == {"synth", "play_reset", "play_push", "play_mark", "play_loop",
                 "play_chk", "play_intr", "play_off", "play_wait", "played"}

\* a reply is pending (transcript on its way to a reply, reply queued or
\* being handled by ttsProcessor) or playing (samples in the playback ring)
ReplyInFlight ==
    \/ transcriptions # <<>>
    \/ llmPc # "select"
    \/ responses # <<>>
    \/ ttsPc # "select"
    \/ ring # <<>>

\* sttProcessor: a segment is received; interrupt.Store(true) if the
\* recognizer reports speech.  IsSpeechDetected takes r.mu and releases it
\* when it returns.
SttReceive ==
    /\ sttPc = "select"
    /\ segmentChan # <<>>
    /\ mu = "free"
    /\ mu' = IsSpeechDetectedUnlock
    /\ sttSeg' = Head(segmentChan)
    /\ segmentChan' = Tail(segmentChan)
    /\ sttPc' = "transcribe"
    /\ IF IsSpeechDetected
       THEN /\ playbackInterrupt' = TRUE
            /\ flagBy' = Head(segmentChan)
            /\ hit' = IF /\ mode = InterruptAlways
                         /\ ttsPc \in SynthPlayPcs
                         /\ hit.r # ttsCur.id
                      THEN [r |-> ttsCur.id, k |-> ttsIdx,
                            q |-> {responses[i].id : i \in 1..Len(responses)}]
                      ELSE hit
       ELSE UNCHANGED <<playbackInterrupt, ghostVars>>
    /\ UNCHANGED <<confVars, pureVars, shutVars, ringVars, running, vadSpeech, vadPending, segsMade,
                   consPc, consSeg, sttText, transcriptions, transcriptLog,
                   textLog, llmVars,
                   chatVars, ttsVars, playerVars, cbVars, captureVars>>

\* a worker that puts the text on the channel whatever it is
SttTranscribeSendsAll ==
    /\ sttPc = "transcribe"
    /\ \E raw \in DecodedTexts(wakeWord) :
         /\ sttText' = TranscribedText(raw, wakeWord)
         /\ sttPc' = "send" /\ sttSeg' = sttSeg
    /\ UNCHANGED <<confVars, pureVars, shutVars, ringVars, playbackInterrupt,
                   running, vadVars, transcriptions, transcriptLog, textLog,
                   llmVars, chatVars, ttsVars, playerVars, cbVars, captureVars,
                   ghostVars>>

\* sttProcessor: text := recognizer.TranscribeSegment(samples); if text != ""
SttTranscribe ==
    /\ sttPc = "transcribe"
    /\ \E raw \in DecodedTexts(wakeWord) :
         LET txt == TranscribedText(raw, wakeWord)
         IN  /\ sttText' = txt
             /\ IF txt # <<>>
                THEN sttPc' = "send" /\ sttSeg' = sttSeg
                ELSE sttPc' = "select" /\ sttSeg' = 0
    /\ UNCHANGED <<confVars, pureVars, shutVars, ringVars, playbackInterrupt,
                   running, vadVars, transcriptions, transcriptLog, textLog,
                   llmVars, chatVars, ttsVars, playerVars, cbVars, captureVars,
                   ghostVars>>

\* sttProcessor: out <- text
SttSend ==
    /\ sttPc = "send"
    /\ Len(transcriptions) < TranscriptionsCap
    /\ transcriptions' = Append(transcriptions, sttSeg)
    /\ transcriptLog' = Append(transcriptLog, sttSeg)
    /\ textLog' = Append(textLog, sttText)
    /\ sttPc' = "clear"
    /\ UNCHANGED <<confVars, pureVars, shutVars, ringVars, playbackInterrupt,
                   running, vadVars, sttSeg, sttText, llmVars, chatVars,
                   ttsVars, playerVars, cbVars, captureVars, ghostVars>>

\* sttProcessor: interrupt.Store(false) after the send
SttClear ==
    /\ sttPc = "clear"
    /\ playbackInterrupt' = FALSE
    /\ flagBy' = 0
    /\ sttPc' = "select"
    /\ sttSeg' = 0
    /\ sttText' = <<>>
    /\ UNCHANGED <<confVars, pureVars, shutVars, ringVars, running, vadVars, transcriptions,
                   transcriptLog, textLog, llmVars, chatVars, ttsVars, playerVars, cbVars,
                   captureVars, hit>>

\* ---------------- llmProcessor -------------------------------------------

\* a receive that takes the newest queued transcript instead of the oldest
LlmReceiveNewest ==
    /\ llmPc = "select"
    /\ transcriptions # <<>>
    /\ llmMsg' = [id |-> transcriptions[Len(transcriptions)], n |-> 0]
    /\ transcriptions' = SubSeq(transcriptions, 1, Len(transcriptions) - 1)
    /\ llmPc' = "chat"
    /\ UNCHANGED <<confVars, pureVars, shutVars, ringVars, playbackInterrupt, running, vadVars, sttPc,
                   sttSeg, sttText, transcriptLog, textLog, responses, replyLog,
                   chatVars, ttsVars,
                   playerVars, cbVars, captureVars, ghostVars>>

\* llmProcessor: text, ok := <-in
LlmReceive ==
    /\ llmPc = "select"
    /\ transcriptions # <<>>
    /\ llmMsg' = [id |-> Head(transcriptions), n |-> 0]
    /\ transcriptions' = Tail(transcriptions)
    /\ llmPc' = "chat"
    /\ UNCHANGED <<confVars, pureVars, shutVars, ringVars, playbackInterrupt, running, vadVars, sttPc,
                   sttSeg, sttText, transcriptLog, textLog, responses, replyLog,
                   chatVars, ttsVars,
                   playerVars, cbVars, captureVars, ghostVars>>

\* client.Chat returns a response; it splits into n sentences
LlmChatOk ==
    /\ llmPc = "chat"
    /\ \E n \in ReplySizes : llmMsg' = [id |-> llmMsg.id, n |-> n]
    /\ history' = ChatSucceeded(history, llmMsg.id, maxHistory)
    /\ chatResult' = "ok"
    /\ chatLog' = Append(chatLog, [id |-> llmMsg.id, result |-> "ok"])
    /\ chatCalls' = chatCalls + 1
    /\ llmPc' = "send"
    /\ UNCHANGED <<confVars, pureVars, shutVars, ringVars, playbackInterrupt, running, vadVars, sttVars,
                   responses, replyLog, ttsVars, playerVars, cbVars, captureVars,
                   ghostVars>>

\* an error branch that logs the error and sends nothing
LlmChatErrorSilent ==
    /\ llmPc = "chat"
    /\ llmMsg' = NoReply
    /\ history' = ChatFailed(history, llmMsg.id)
    /\ chatResult' = "error"
    /\ chatCalls' = chatCalls + 1
    /\ chatLog' = Append(chatLog, [id |-> llmMsg.id, result |-> "error"])
    /\ llmPc' = "select"
    /\ UNCHANGED <<confVars, pureVars, shutVars, ringVars, playbackInterrupt, running, vadVars, sttVars,
                   responses, replyLog, ttsVars, playerVars, cbVars, captureVars,
                   ghostVars>>

\* client.Chat returns an error; the reply is the one-sentence apology
LlmChatError ==
    /\ llmPc = "chat"
    /\ llmMsg' = [id |-> llmMsg.id, n |-> 1]
    /\ history' = ChatFailed(history, llmMsg.id)
    /\ chatResult' = "error"
    /\ chatLog' = Append(chatLog, [id |-> llmMsg.id, result |-> "error"])
    /\ chatCalls' = chatCalls + 1
    /\ llmPc' = "send"
    /\ UNCHANGED <<confVars, pureVars, shutVars, ringVars, playbackInterrupt, running, vadVars, sttVars,
                   responses, replyLog, ttsVars, playerVars, cbVars, captureVars,
                   ghostVars>>

\* llmProcessor: out <- response
LlmSend ==
    /\ llmPc = "send"
    /\ Len(responses) < ResponsesCap
    /\ responses' = Append(responses, llmMsg)
    /\ replyLog' = Append(replyLog, [id |-> llmMsg.id,
                                     apology |-> chatResult = "error"])
    /\ llmMsg' = NoReply
    /\ llmPc' = "select"
    /\ UNCHANGED <<confVars, pureVars, shutVars, ringVars, playbackInterrupt, running, vadVars, sttVars,
                   chatVars, ttsVars, playerVars, cbVars, captureVars, ghostVars>>

\* ---------------- ttsProcessor -------------------------------------------

ttsRest == <<confVars, pureVars, shutVars, ringVars, vadVars, sttVars, chatVars, captureVars, cbVars>>
ttsOther == <<ttsRest, sentenceLog>>

\* where ttsProcessor goes when the sentence loop is left: in wait mode the
\* post-playback sleep, in always mode the drain if it was interrupted
AfterLoopPc(wi) ==
    IF mode = InterruptWait THEN "sleep"
    ELSE IF wi THEN "drain" ELSE "select"

\* ttsProcessor: text, ok := <-in
TtsReceive ==
    /\ ttsPc = "select"
    /\ responses # <<>>
    /\ ttsCur' = Head(responses)
    /\ responses' = Tail(responses)
    /\ ttsPc' = "precheck"
    /\ UNCHANGED <<playbackInterrupt, running, llmPc, llmMsg, replyLog, ttsIdx,
                   wasInterrupted, playerVars, ghostVars, ttsOther>>

\* ttsProcessor: the check before synthesis (always mode), or
\* capturer.Pause() (wait mode); then SplitSentences
TtsPreCheck ==
    /\ ttsPc = "precheck"
    /\ IF mode = InterruptAlways /\ playbackInterrupt
       THEN /\ ttsPc' = "predrain"
            /\ UNCHANGED <<running, ttsIdx>>
       ELSE /\ running' = IF mode = InterruptWait THEN FALSE ELSE running
            /\ IF ttsCur.n = 0
               THEN /\ ttsPc' = IF mode = InterruptWait THEN "sleep" ELSE "select"
                    /\ ttsIdx' = 0
               ELSE /\ ttsPc' = "loop"
                    /\ ttsIdx' = 1
    /\ wasInterrupted' = FALSE
    /\ UNCHANGED <<playbackInterrupt, llmVars, ttsCur, playerVars, ghostVars,
                   ttsOther>>

\* drainChannel
drainChannel(ch) == <<>>

\* ttsProcessor: the reply is discarded with every queued one
TtsPreDrain ==
    /\ ttsPc = "predrain"
    /\ responses' = drainChannel(responses)
    /\ ttsPc' = "select"
    /\ sentenceLog' = <<>>
    /\ UNCHANGED <<playbackInterrupt, running, llmPc, llmMsg, replyLog, ttsCur,
                   ttsIdx,
                   wasInterrupted, playerVars, ghostVars, ttsRest>>

\* ttsProcessor: head of the sentence loop, with the check before each
\* sentence (always mode)
TtsLoop ==
    /\ ttsPc = "loop"
    /\ IF ttsIdx > ttsCur.n
       THEN /\ ttsPc' = AfterLoopPc(wasInterrupted)
            /\ UNCHANGED wasInterrupted
       ELSE IF mode = InterruptAlways /\ playbackInterrupt
       THEN /\ wasInterrupted' = TRUE
            /\ ttsPc' = AfterLoopPc(TRUE)
       ELSE /\ ttsPc' = "synth"
            /\ UNCHANGED wasInterrupted
    /\ sentenceLog' = IF ttsPc' = "select" THEN <<>> ELSE sentenceLog
    /\ UNCHANGED <<playbackInterrupt, running, llmVars, ttsCur, ttsIdx,
                   playerVars, ghostVars, ttsRest>>

\* a failed synthesis that gives up the rest of the reply
TtsSynthesizeGivesUp ==
    /\ ttsPc = "synth"
    /\ \E ok \in BOOLEAN :
         IF ok THEN /\ ttsPc' = "play_reset" /\ ttsIdx' = ttsIdx
                    /\ UNCHANGED sentenceLog
         ELSE /\ ttsPc' = "loop" /\ ttsIdx' = ttsCur.n + 1
              /\ sentenceLog' = Append(sentenceLog,
                                       [s |-> ttsIdx, o |-> "skipped"])
    /\ UNCHANGED <<playbackInterrupt, running, llmVars, ttsCur, wasInterrupted,
                   playerVars, ghostVars, ttsRest>>

\* synthesizer.Synthesize: a chunk, or an error and the sentence is skipped
TtsSynthesize ==
    /\ ttsPc = "synth"
    /\ \E ok \in BOOLEAN :
         IF ok THEN /\ ttsPc' = "play_reset" /\ ttsIdx' = ttsIdx
                    /\ UNCHANGED sentenceLog
         ELSE /\ ttsPc' = "loop" /\ ttsIdx' = ttsIdx + 1
              /\ sentenceLog' = Append(sentenceLog,
                                       [s |-> ttsIdx, o |-> "skipped"])
    /\ UNCHANGED <<playbackInterrupt, running, llmVars, ttsCur, wasInterrupted,
                   playerVars, ghostVars, ttsRest>>

\* Player.Play: p.interrupt.Store(false)
PlayReset ==
    /\ ttsPc = "play_reset"
    /\ playerIntr' = FALSE
    /\ ttsPc' = "play_push"
    /\ UNCHANGED <<playbackInterrupt, running, llmVars, ttsCur, ttsIdx,
                   wasInterrupted, ring, playing, completeChan, ghostVars,
                   ttsOther>>

\* playbackRing.push: writes what fits, returns the number written
ringPush(rb, samples) ==
    LET available == PlaybackRingCap - Len(rb)
        toWrite == Min(Len(samples), available)
    IN  rb \o SubSeq(samples, 1, toWrite)

\* the samples of sentence s of reply r
Samples(r, s) == [i \in 1..SentenceLen |-> [r |-> r, s |-> s]]

\* Player.Play: p.ring.push(playbackSamples)
PlayPush ==
    /\ ttsPc = "play_push"
    /\ ring' = ringPush(ring, Samples(ttsCur.id, ttsIdx))
    /\ ttsPc' = "play_mark"
    /\ UNCHANGED <<playbackInterrupt, running, llmVars, ttsCur, ttsIdx,
                   wasInterrupted, playing, playerIntr, completeChan, ghostVars,
                   ttsOther>>

\* Player.Play: p.playing.Store(true)
PlayMark ==
    /\ ttsPc = "play_mark"
    /\ playing' = TRUE
    /\ ttsPc' = "play_loop"
    /\ UNCHANGED <<playbackInterrupt, running, llmVars, ttsCur, ttsIdx,
                   wasInterrupted, ring, playerIntr, completeChan, ghostVars,
                   ttsOther>>

\* Player.Play: for p.playing.Load()
PlayLoop ==
    /\ ttsPc = "play_loop"
    /\ ttsPc' = IF playing THEN "play_chk" ELSE "played"
    /\ UNCHANGED <<playbackInterrupt, running, llmVars, ttsCur, ttsIdx,
                   wasInterrupted, playerVars, ghostVars, ttsOther>>

\* Player.Play: if p.interrupt.Load() || p.externalIntr.Load()
PlayCheck ==
    /\ ttsPc = "play_chk"
    /\ ttsPc' = IF playerIntr \/ playbackInterrupt THEN "play_intr" ELSE "play_wait"
    /\ UNCHANGED <<playbackInterrupt, running, llmVars, ttsCur, ttsIdx,
                   wasInterrupted, playerVars, ghostVars, ttsOther>>

\* playbackRing.clear
ringClear(rb) == <<>>

\* Player.Play, interrupted: p.ring.clear()
PlayClear ==
    /\ ttsPc = "play_intr"
    /\ ring' = ringClear(ring)
    /\ ttsPc' = "play_off"
    /\ UNCHANGED <<playbackInterrupt, running, llmVars, ttsCur, ttsIdx,
                   wasInterrupted, playing, playerIntr, completeChan, ghostVars,
                   ttsOther>>

\* Player.Play, interrupted: p.playing.Store(false); return nil
PlayOff ==
    /\ ttsPc = "play_off"
    /\ playing' = FALSE
    /\ ttsPc' = "played"
    /\ UNCHANGED <<playbackInterrupt, running, llmVars, ttsCur, ttsIdx,
                   wasInterrupted, ring, playerIntr, completeChan, ghostVars,
                   ttsOther>>

\* Player.Play: the select takes a signal from completeChan
PlayWaitSignal ==
    /\ ttsPc = "play_wait"
    /\ completeChan
    /\ completeChan' = FALSE
    /\ ttsPc' = "play_loop"
    /\ UNCHANGED <<playbackInterrupt, running, llmVars, ttsCur, ttsIdx,
                   wasInterrupted, ring, playing, playerIntr, ghostVars,
                   ttsOther>>

\* Player.Play: the select takes the 50 ms timer.  The timer of the third
\* case is created anew by every select and is never shorter than 2 s, so
\* the 50 ms timer is always ready first.
PlayWaitTick ==
    /\ ttsPc = "play_wait"
    /\ ttsPc' = "play_loop"
    /\ UNCHANGED <<playbackInterrupt, running, llmVars, ttsCur, ttsIdx,
                   wasInterrupted, playerVars, ghostVars, ttsOther>>

\* ttsProcessor: Play returned nil; the check after playback (always mode)
TtsPostPlay ==
    /\ ttsPc = "played"
    /\ IF mode = InterruptAlways /\ playbackInterrupt
       THEN /\ wasInterrupted' = TRUE
            /\ ttsPc' = AfterLoopPc(TRUE)
            /\ UNCHANGED ttsIdx
       ELSE /\ ttsIdx' = ttsIdx + 1
            /\ ttsPc' = "loop"
            /\ UNCHANGED wasInterrupted
    /\ sentenceLog' = Append(sentenceLog, [s |-> ttsIdx, o |-> "played"])
    /\ UNCHANGED <<playbackInterrupt, running, llmVars, ttsCur, playerVars,
                   ghostVars, ttsRest>>

\* ttsProcessor, wait mode: time.Sleep(PostPlaybackDelayMs)
TtsSleep ==
    /\ ttsPc = "sleep"
    /\ ttsPc' = "resume"
    /\ UNCHANGED <<playbackInterrupt, running, llmVars, ttsCur, ttsIdx,
                   wasInterrupted, playerVars, ghostVars, ttsOther>>

\* ttsProcessor, wait mode: capturer.Resume()
TtsResume ==
    /\ ttsPc = "resume"
    /\ running' = TRUE
    /\ ttsPc' = "select"
    /\ sentenceLog' = <<>>
    /\ UNCHANGED <<playbackInterrupt, llmVars, ttsCur, ttsIdx, wasInterrupted,
                   playerVars, ghostVars, ttsRest>>

\* ttsProcessor, always mode and interrupted: drainChannel(in)
TtsDrain ==
    /\ ttsPc = "drain"
    /\ responses' = drainChannel(responses)
    /\ ttsPc' = "select"
    /\ sentenceLog' = <<>>
    /\ UNCHANGED <<playbackInterrupt, running, llmPc, llmMsg, replyLog, ttsCur,
                   ttsIdx,
                   wasInterrupted, playerVars, ghostVars, ttsRest>>

\* ---------------- Player.initDevice.onSendFrames -------------------------

cbOther == <<confVars, pureVars, shutVars, ringVars, playbackInterrupt, running, vadVars, sttVars, llmVars,
             chatVars, ttsVars, captureVars, ghostVars>>

\* onSendFrames: interrupted := p.interrupt.Load() || p.externalIntr.Load()
CbBegin ==
    /\ cbPc = "idle"
    /\ cbIntr' = (playerIntr \/ playbackInterrupt)
    /\ cbI' = 0
    /\ interruptedReplies' =
          IF mode = InterruptAlways /\ (playerIntr \/ playbackInterrupt)
          THEN interruptedReplies \cup {ring[i].r : i \in 1..Len(ring)}
          ELSE interruptedReplies
    /\ cbPc' = "frames"
    /\ UNCHANGED <<playerVars, staleOut, cbOther>>

\* onSendFrames: one frame of the block; a sample popped from the ring
\* unless interrupted or empty, else 0.0
CbFrame ==
    /\ cbPc = "frames"
    /\ cbI < FrameCount
    /\ cbI' = cbI + 1
    /\ IF ~cbIntr /\ ring # <<>>
       THEN /\ ring' = Tail(ring)
            /\ staleOut' = (staleOut \/ Head(ring).r \in interruptedReplies)
       ELSE UNCHANGED <<ring, staleOut>>
    /\ UNCHANGED <<playing, playerIntr, completeChan, cbPc, cbIntr,
                   interruptedReplies, cbOther>>

\* onSendFrames: if p.ring.isEmpty() || interrupted
CbCheck ==
    /\ cbPc = "frames"
    /\ cbI = FrameCount
    /\ cbPc' = IF ring = <<>> \/ cbIntr THEN "mark" ELSE "idle"
    /\ cbI' = 0
    /\ UNCHANGED <<playerVars, cbIntr, staleOut, interruptedReplies, cbOther>>

\* onSendFrames: p.playing.Store(false)
CbMark ==
    /\ cbPc = "mark"
    /\ playing' = FALSE
    /\ cbPc' = "signal"
    /\ UNCHANGED <<ring, playerIntr, completeChan, cbIntr, cbI, staleOut,
                   interruptedReplies, cbOther>>

\* onSendFrames: non-blocking send on completeChan
CbSignal ==
    /\ cbPc = "signal"
    /\ completeChan' = TRUE
    /\ cbPc' = "idle"
    /\ UNCHANGED <<ring, playing, playerIntr, cbIntr, cbI, staleOut,
                   interruptedReplies, cbOther>>

Next ==
    \/ Deliver \/ AcceptLock \/ AcceptWaveform \/ AcceptSend
    \/ SttReceive \/ SttTranscribe \/ SttSend \/ SttClear
    \/ LlmReceive \/ LlmChatOk \/ LlmChatError \/ LlmSend
    \/ TtsReceive \/ TtsPreCheck \/ TtsPreDrain \/ TtsLoop \/ TtsSynthesize
    \/ PlayReset \/ PlayPush \/ PlayMark \/ PlayLoop \/ PlayCheck
    \/ PlayClear \/ PlayOff \/ PlayWaitSignal \/ PlayWaitTick
    \/ TtsPostPlay \/ TtsSleep \/ TtsResume \/ TtsDrain
    \/ CbBegin \/ CbFrame \/ CbCheck \/ CbMark \/ CbSignal

Spec == Init /\ [][Next]_vars

(***************************************************************************)
(* SpecPlay: the workers downstream of the recognizer, started in the      *)
(* state in which segment 1 was transcribed and answered, its reply waits  *)
(* for ttsProcessor, and segment 2 waits on the segment channel while the  *)
(* detector may still report speech.  The goroutines are scheduled fairly; *)
(* nothing is assumed about the device calling the output callback.        *)
(***************************************************************************)
InitLoaded ==
    /\ mode \in {InterruptAlways, InterruptWait}
    /\ maxHistory = 1
    /\ playbackInterrupt = FALSE
    /\ running = TRUE
    /\ vadSpeech \in BOOLEAN /\ vadPending = 0 /\ segsMade = 2
    /\ consPc = "idle" /\ consSeg = 0
    /\ segmentChan = <<2>> /\ mu = "free"
    /\ sttPc = "select" /\ sttSeg = 0 /\ sttText = <<>>
    /\ transcriptions = <<>> /\ transcriptLog = <<1>> /\ textLog = << <<"x">> >>
    /\ llmPc = "select" /\ llmMsg = NoReply
    /\ responses = <<[id |-> 1, n |-> MaxSentences]>>
    /\ replyLog = <<[id |-> 1, apology |-> FALSE]>>
    /\ history = ChatSucceeded(NewHistory, 1, 1)
    /\ chatResult = "ok" /\ chatCalls = 1
    /\ chatLog = <<[id |-> 1, result |-> "ok"]>>
    /\ InitPlayer /\ InitCapture /\ InitMain /\ InitIdle

\* the steps of the sttProcessor and llmProcessor goroutines
WorkerStep ==
    \/ SttReceive \/ SttTranscribe \/ SttSend \/ SttClear
    \/ LlmReceive \/ LlmChatOk \/ LlmChatError \/ LlmSend

\* the steps of the ttsProcessor goroutine outside Player.Play
TtsStep ==
    \/ TtsReceive \/ TtsPreCheck \/ TtsPreDrain \/ TtsLoop \/ TtsSynthesize
    \/ TtsPostPlay \/ TtsSleep \/ TtsResume \/ TtsDrain

\* the steps of Player.Play
PlayStep ==
    \/ PlayReset \/ PlayPush \/ PlayMark \/ PlayLoop \/ PlayCheck
    \/ PlayClear \/ PlayOff \/ PlayWaitSignal \/ PlayWaitTick

\* the steps of the output callback
CbStep == CbBegin \/ CbFrame \/ CbCheck \/ CbMark \/ CbSignal

NextPlay == WorkerStep \/ TtsStep \/ PlayStep \/ CbStep

SpecPlay ==
    /\ InitLoaded /\ [][NextPlay]_vars
    /\ WF_vars(WorkerStep) /\ WF_vars(TtsStep) /\ WF_vars(PlayStep)

\* C15: every call of Player.play() returns, also when the device never
\* runs the output callback and no interrupt flag is raised.
C15_PlayReturns ==
    (ttsPc = "play_reset") ~> (ttsPc = "played")


(***************************************************************************)
(* Properties of the pipeline.                                             *)
(***************************************************************************)

\* C1: the interrupt flag is cleared by the time the STT worker has finished
\* handling the segment that set it (also when the transcription is empty or
\* dropped by the wake-word gate): the flag is never set while the worker
\* waits for the next segment.
C1_FlagClearedAfterSegment ==
    (sttPc = "select") => ~playbackInterrupt

\* C2: in always mode, once the flag is set while samples of a reply are
\* queued for playback and an output callback has run and found it set (one
\* callback period has passed), no sample of that reply reaches the device
\* afterwards.
C2_NoSampleAfterInterrupt ==
    (mode = InterruptAlways) => ~staleOut

\* C3: in wait mode the capturer's running flag is false whenever samples of
\* a reply are queued in the playback ring, so it is set again only after the
\* last sample was consumed.
C3_WaitModeMicOffWhilePlaying ==
    (mode = InterruptWait /\ ring # <<>>) => ~running

\* C4: in always mode, once the flag has been set during synthesis or
\* playback of sentence k of a reply, no later sentence of that reply is
\* synthesized or played, and no reply that was queued at that moment is.
C4_InterruptStopsReply ==
    (mode = InterruptAlways /\ hit.r # 0 /\ ttsPc \in SynthPlayPcs) =>
        /\ ~(ttsCur.id = hit.r /\ ttsIdx > hit.k)
        /\ ttsCur.id \notin hit.q

\* C5: the reply to a transcript is never discarded or cut short on account
\* of the flag that the handling of that transcript's own segment raised.
C5_NoSelfInterrupt ==
    (ttsPc \in {"predrain", "drain", "play_intr", "play_off"}) =>
        (flagBy = 0 \/ flagBy # ttsCur.id)

\* C6: in wait mode the interrupt flag has no effect on playback: Play never
\* takes its interrupted branch and the callback never withholds a queued
\* sample because of the flag.
C6_WaitModeIgnoresFlag ==
    (mode = InterruptWait) =>
        /\ ttsPc \notin {"play_intr", "play_off"}
        /\ ~(cbPc = "frames" /\ cbI < FrameCount /\ cbIntr /\ ring # <<>>)

\* C7: the STT worker sets the flag for a received segment exactly when a
\* reply is pending or playing at that moment.
C7_FlagSetIffReplyInFlight ==
    [][(sttPc = "select" /\ sttPc' = "transcribe") =>
          ((flagBy' = sttSeg') <=> ReplyInFlight)]_vars

\* the replies put on the reply channel for transcript id
RepliesTo(id) == {j \in 1..Len(replyLog) : replyLog[j].id = id}

\* C11: when the remote call fails for a transcript, the Conversant worker
\* pushes exactly one apology for it to the reply channel (none while it is
\* still about to push it), no assistant turn for it enters the history, and
\* the worker goes back to receiving and serves later transcripts.
C11_ApologyOnFailure ==
    \A i \in 1..Len(chatLog) :
        (chatLog[i].result = "error") =>
            LET id == chatLog[i].id
                sending == (llmPc = "send" /\ llmMsg.id = id)
            IN  /\ \A k \in 1..Len(history) : history[k] # AssistantTurn(id)
                /\ Cardinality(RepliesTo(id)) = IF sending THEN 0 ELSE 1
                /\ \A j \in RepliesTo(id) : replyLog[j].apology
                /\ ~sending => (llmPc = "select" \/ llmMsg.id > id)

\* C11 witness: the call failed for one transcript, its apology was pushed,
\* and the reply to a later transcript was pushed after it.
C11_Witness ==
    \E i \in 1..Len(chatLog), j, k \in 1..Len(replyLog) :
        /\ chatLog[i].result = "error"
        /\ replyLog[j] = [id |-> chatLog[i].id, apology |-> TRUE]
        /\ j < k
        /\ replyLog[k].id > chatLog[i].id

\* the locks of the Recognizer (it has the one mutex, mu) a goroutine holds
LocksHeldBy(t) == IF mu = t THEN {"mu"} ELSE {}

\* C13: a transcription runs while its goroutine holds a transcription lock,
\* a lock of the Recognizer other than the VAD lock (one STT worker executes
\* transcriptions, so at most one runs at a time).
C13_TranscriptionUnderLock ==
    (sttPc = "transcribe") => (LocksHeldBy("stt") \ {"mu"} # {})

\* C14: the VAD lock is not held by the STT worker while it executes a
\* transcription, and a capture consumer that is about to take the lock in
\* accept_waveform while a transcription runs finds it free.
C14_VadLockFreeDuringTranscription ==
    (sttPc = "transcribe") =>
        /\ mu # "stt"
        /\ (consPc = "accept") => (mu = "free")

\* C14 witness: the capture consumer holds the VAD lock inside
\* accept_waveform while a transcription is in progress.
C14_Witness ==
    sttPc = "transcribe" /\ consPc = "locked" /\ mu = "consumer"

C18_OrderPreserved ==
    /\ \A i, j \in 1..Len(transcriptLog) :
          (i < j) => (transcriptLog[i] < transcriptLog[j])
    /\ Len(replyLog) <= Len(transcriptLog)
    /\ \A i \in 1..Len(replyLog) : replyLog[i].id = transcriptLog[i]

\* C18 witness: two segments were transcribed and both replies were put on
\* the reply channel.
C18_Witness ==
    Len(transcriptLog) = 2 /\ Len(replyLog) = 2

\* C19: in wait mode, between pause() and resume() the consumer hands no
\* chunk to on_samples (no accept_waveform call is made or completes) and no
\* segment is put on the segment channel.
C19_NoCaptureWhilePaused ==
    [][(mode = InterruptWait /\ ~running /\ ~running') =>
          /\ consPc' = consPc
          /\ Len(segmentChan') <= Len(segmentChan)]_vars

\* C25: a reply that is empty or only white space (SplitSentences returns
\* no sentence) causes no synthesis call and no playback, and in wait mode
\* capture is resumed at once: ttsProcessor does not wait the post-playback
\* delay for it.
C25_EmptyReplyResumesAtOnce ==
    (ttsCur.id # 0 /\ ttsCur.n = 0) =>
        ttsPc \in {"select", "precheck", "predrain", "resume"}

\* C26: when the synthesis of a sentence fails the sentence is skipped and
\* ttsProcessor goes on with the next one: the sentences of a reply are
\* skipped or played one by one in order, none is left out while the loop
\* runs, and in wait mode the worker is back at its receive only with
\* capture resumed.
C26_FailedSentenceSkipped ==
    /\ \A i \in 1..Len(sentenceLog) : sentenceLog[i].s = i
    /\ (ttsPc \in {"loop"} \cup SynthPlayPcs) => (Len(sentenceLog) = ttsIdx - 1)
    /\ (mode = InterruptWait /\ ttsPc = "select") => running

\* C26 witness: in wait mode the first sentence of a reply failed, the
\* second was played and the worker is about to resume capture.
C26_Witness ==
    /\ mode = InterruptWait /\ ttsPc = "resume"
    /\ sentenceLog = <<[s |-> 1, o |-> "skipped"], [s |-> 2, o |-> "played"]>>

\* C31: when Player.Play leaves its wait loop because playing is false,
\* with no interrupt flag raised and none seen by the running callback, the
\* playback ring is empty: every sample Play queued has been consumed.
C31_PlayReturnsDrained ==
    [][(/\ ttsPc = "play_loop" /\ ttsPc' = "played"
        /\ ~playbackInterrupt /\ ~playerIntr /\ ~cbIntr /\ flagBy = 0)
          => ring = <<>>]_vars

\* the safety half of C39 (used to locate the failure of C39)
MicOnWhileWaiting ==
    (mode = InterruptWait /\ ttsPc = "select") => running

\* C39: in wait mode ttsProcessor is never back at its select with the
\* capturer paused, and every pause it issues is eventually followed by a
\* resume: the microphone is not left paused for ever.
C39_PauseFollowedByResume ==
    /\ []MicOnWhileWaiting
    /\ (mode = InterruptWait /\ ~running) ~> running

(***************************************************************************)
(* SpecRing: SpecPlay without fairness and with playbackRing as the code   *)
(* has it: the array samples, the atomic positions head and tail, and      *)
(* push, pop and clear as sequences of their loads, stores and adds.  The  *)
(* positions are uint64 in the code; they stay far below 2^64 here, and    *)
(* int(head-tail) is the signed difference head - tail.                    *)
(***************************************************************************)
ringTtsOther == <<confVars, pureVars, shutVars, playbackInterrupt, running, vadVars, sttVars,
                  llmVars, chatVars, ttsCur, ttsIdx, wasInterrupted, sentenceLog,
                  playerVars, cbVars, captureVars, ghostVars>>

ringCbOther == <<confVars, pureVars, shutVars, playbackInterrupt, running, vadVars, sttVars,
                 llmVars, chatVars, ttsVars, playerVars, cbIntr, staleOut,
                 interruptedReplies, captureVars, ghostVars>>

\* playbackRing.push: head := rb.head.Load()
PushLoadHead ==
    /\ ttsPc = "play_push"
    /\ pushHead' = head
    /\ ttsPc' = "push_tail"
    /\ UNCHANGED <<head, tail, ringSamples, pushTail, popHead, popTail,
                   clearHead, maxOut, orderBroken, ringTtsOther>>

\* playbackRing.push: tail := rb.tail.Load()
PushLoadTail ==
    /\ ttsPc = "push_tail"
    /\ pushTail' = tail
    /\ ttsPc' = "push_write"
    /\ UNCHANGED <<head, tail, ringSamples, pushHead, popHead, popTail,
                   clearHead, maxOut, orderBroken, ringTtsOther>>

\* playbackRing.push: toWrite, from the positions push has read
toWrite(n) ==
    LET available == PlaybackRingCap - (pushHead - pushTail)
    IN  IF n > available THEN available ELSE n

\* playbackRing.push: the loop that stores the samples of sentence ttsIdx
PushWrite ==
    /\ ttsPc = "push_write"
    /\ ringSamples' =
          [k \in 0..(PlaybackRingCap - 1) |->
             IF \E i \in 0..(toWrite(SentenceLen) - 1) :
                    k = (pushHead + i) % PlaybackRingCap
             THEN [r |-> ttsCur.id, s |-> ttsIdx]
             ELSE ringSamples[k]]
    /\ ttsPc' = "push_add"
    /\ UNCHANGED <<head, tail, pushHead, pushTail, popHead, popTail, clearHead,
                   maxOut, orderBroken, ringTtsOther>>

\* playbackRing.push: rb.head.Add(uint64(toWrite))
PushAdd ==
    /\ ttsPc = "push_add"
    /\ head' = head + toWrite(SentenceLen)
    /\ ttsPc' = "play_mark"
    /\ UNCHANGED <<tail, ringSamples, pushHead, pushTail, popHead, popTail,
                   clearHead, maxOut, orderBroken, ringTtsOther>>

\* playbackRing.clear: rb.head.Load()
ClearLoad ==
    /\ ttsPc = "play_intr"
    /\ clearHead' = head
    /\ ttsPc' = "clear_store"
    /\ UNCHANGED <<head, tail, ringSamples, pushHead, pushTail, popHead,
                   popTail, maxOut, orderBroken, ringTtsOther>>

\* playbackRing.clear: rb.tail.Store(...)
ClearStore ==
    /\ ttsPc = "clear_store"
    /\ tail' = clearHead
    /\ ttsPc' = "play_off"
    /\ UNCHANGED <<head, ringSamples, pushHead, pushTail, popHead, popTail,
                   clearHead, maxOut, orderBroken, ringTtsOther>>

\* onSendFrames: a frame of an interrupted block is 0.0
CbSilent ==
    /\ cbPc = "frames"
    /\ cbI < FrameCount
    /\ cbIntr
    /\ cbI' = cbI + 1
    /\ UNCHANGED <<cbPc, ringVars, ringCbOther>>

\* playbackRing.pop: head := rb.head.Load()
PopLoadHead ==
    /\ cbPc = "frames"
    /\ cbI < FrameCount
    /\ ~cbIntr
    /\ popHead' = head
    /\ cbPc' = "pop_tail"
    /\ UNCHANGED <<cbI, head, tail, ringSamples, pushHead, pushTail, popTail,
                   clearHead, maxOut, orderBroken, ringCbOther>>

\* playbackRing.pop: tail := rb.tail.Load(); if head == tail, empty
PopLoadTail ==
    /\ cbPc = "pop_tail"
    /\ popTail' = tail
    /\ IF popHead = tail
       THEN cbI' = cbI + 1 /\ cbPc' = "frames"
       ELSE cbI' = cbI /\ cbPc' = "pop_take"
    /\ UNCHANGED <<head, tail, ringSamples, pushHead, pushTail, popHead,
                   clearHead, maxOut, orderBroken, ringCbOther>>

\* playbackRing.pop: sample := rb.samples[tail%playbackRingSize];
\* rb.tail.Add(1); the sample is written to the device block
PopTake ==
    /\ cbPc = "pop_take"
    /\ tail < MaxRingPos
    /\ LET sample == ringSamples[popTail % PlaybackRingCap]
       IN  /\ orderBroken' = (orderBroken \/
                                (sample.r = maxOut.r /\ sample.s < maxOut.s))
           /\ maxOut' = IF \/ sample.r > maxOut.r
                           \/ (sample.r = maxOut.r /\ sample.s > maxOut.s)
                        THEN sample ELSE maxOut
    /\ tail' = tail + 1
    /\ cbI' = cbI + 1
    /\ cbPc' = "frames"
    /\ UNCHANGED <<head, ringSamples, pushHead, pushTail, popHead, popTail,
                   clearHead, ringCbOther>>

\* onSendFrames: if p.ring.isEmpty() || interrupted
CbIsEmpty ==
    /\ cbPc = "frames"
    /\ cbI = FrameCount
    /\ cbPc' = IF head = tail \/ cbIntr THEN "mark" ELSE "idle"
    /\ cbI' = 0
    /\ UNCHANGED <<ringVars, ringCbOther>>

\* the steps of Player.Play on the ring with positions
RingPlayStep ==
    \/ PlayReset \/ PushLoadHead \/ PushLoadTail \/ PushWrite \/ PushAdd
    \/ PlayMark \/ PlayLoop \/ PlayCheck \/ ClearLoad \/ ClearStore
    \/ PlayOff \/ PlayWaitSignal \/ PlayWaitTick

\* the steps of the output callback on the ring with positions
RingCbStep ==
    \/ CbBegin \/ CbSilent \/ PopLoadHead \/ PopLoadTail \/ PopTake
    \/ CbIsEmpty \/ CbMark \/ CbSignal

\* the steps of ttsProcessor in always mode
RingTtsStep ==
    \/ TtsReceive \/ TtsPreCheck \/ TtsPreDrain \/ TtsLoop \/ TtsSynthesize
    \/ TtsPostPlay \/ TtsDrain

NextRing == WorkerStep \/ RingTtsStep \/ RingPlayStep \/ RingCbStep

\* a reply and a segment queued, in always mode: the mode in which speech
\* interrupts playback
InitRing == InitLoaded /\ mode = InterruptAlways

SpecRing == InitRing /\ [][NextRing]_vars

\* C17: within a reply the samples reach the device in sentence order: no
\* sample of a sentence is heard after a sample of a later sentence of the
\* same reply.
C17_SentenceOrder ==
    ~orderBroken

\* C30: the playback ring never holds fewer than 0 or more than
\* PlaybackRingCap samples, 0 <= head - tail <= capacity, whatever the
\* interleaving of Play's push and clear with the output callback's pop, and
\* a push stores no more samples than the ring has room for.
C30_OccupancyInBounds ==
    /\ 0 <= head - tail
    /\ head - tail <= PlaybackRingCap
    /\ (ttsPc \in {"push_write", "push_add"}) =>
           (head - tail) + toWrite(SentenceLen) <= PlaybackRingCap

\* C37: a frame of the output block is given a sample of the ring only when
\* the ring holds one, and then the oldest queued sample; every other frame
\* is 0.0.
C37_BlockFromRingInOrder ==
    [][(cbPc = "pop_take" /\ cbPc' = "frames") =>
          (tail < head /\ popTail = tail)]_vars

(***************************************************************************)
(* SpecShutdown: the pipeline of SpecPlay with the capture consumer, and   *)
(* main() from the shutdown signal to its return.  The signal can arrive   *)
(* in any state.  The workers look at ctx.Done() only in their selects; a  *)
(* select with several ready cases takes any one of them.  The goroutines  *)
(* and main are scheduled fairly.  Once main has returned or a goroutine   *)
(* has panicked the process is gone and nothing runs any more.             *)
(***************************************************************************)
Alive == ~panicked /\ mainPc # "exited"

\* segment 1 was transcribed, answered and played; segment 2 waits on the
\* segment channel while the detector may still report speech
InitShutdown ==
    /\ mode \in {InterruptAlways, InterruptWait}
    /\ maxHistory = 1
    /\ playbackInterrupt = FALSE
    /\ running = TRUE
    /\ vadSpeech \in BOOLEAN /\ vadPending = 0 /\ segsMade = 2
    /\ consPc = "idle" /\ consSeg = 0
    /\ segmentChan = <<2>> /\ mu = "free"
    /\ sttPc = "select" /\ sttSeg = 0 /\ sttText = <<>>
    /\ transcriptions = <<>> /\ transcriptLog = <<1>> /\ textLog = << <<"x">> >>
    /\ llmPc = "select" /\ llmMsg = NoReply
    /\ responses = <<>>
    /\ replyLog = <<[id |-> 1, apology |-> FALSE]>>
    /\ history = ChatSucceeded(NewHistory, 1, 1)
    /\ chatResult = "ok" /\ chatCalls = 1
    /\ chatLog = <<[id |-> 1, result |-> "ok"]>>
    /\ InitPlayer /\ InitCapture /\ InitMain /\ InitIdle

mainOther == <<confVars, pureVars, ringVars, playbackInterrupt, vadVars, sttVars, llmVars,
               chatVars, ttsVars, playerVars, cbVars, ghostVars>>

\* main: <-sigChan
Signal ==
    /\ Alive
    /\ mainPc = "run"
    /\ mainPc' = "stop"
    /\ UNCHANGED <<ctxDone, transClosed, panicked, running, captureVars,
                   mainOther>>

\* main: capturer.Stop() up to close(c.stopChan)
MainStop ==
    /\ Alive
    /\ mainPc = "stop"
    /\ running' = FALSE
    /\ stopChan' = "closed"
    /\ mainPc' = "stop_wait"
    /\ UNCHANGED <<ctxDone, transClosed, panicked, capRing, dropCount, procPc,
                   procChunk, produced, delivered, device, callVars, mainOther>>

\* main: capturer.Stop() from c.wg.Wait() on: processLoop has returned, the
\* device is stopped
MainStopJoin ==
    /\ Alive
    /\ mainPc = "stop_wait"
    /\ consPc = "done"
    /\ device' = "stopped"
    /\ mainPc' = "cancel"
    /\ UNCHANGED <<ctxDone, transClosed, panicked, running, capRing, dropCount,
                   procPc, procChunk, produced, delivered, stopChan, callVars,
                   mainOther>>

\* main: cancel()
MainCancel ==
    /\ Alive
    /\ mainPc = "cancel"
    /\ ctxDone' = TRUE
    /\ mainPc' = "close"
    /\ UNCHANGED <<transClosed, panicked, running, captureVars, mainOther>>

\* main: close(transcriptions)
MainClose ==
    /\ Alive
    /\ mainPc = "close"
    /\ transClosed' = TRUE
    /\ mainPc' = "wait"
    /\ UNCHANGED <<ctxDone, panicked, running, captureVars, mainOther>>

\* main: case <-done, wg.Wait() has returned for the three workers
MainJoined ==
    /\ Alive
    /\ mainPc = "wait"
    /\ sttPc = "done" /\ llmPc = "done" /\ ttsPc = "done"
    /\ mainPc' = "exited"
    /\ UNCHANGED <<ctxDone, transClosed, panicked, running, captureVars,
                   mainOther>>

\* main: case <-time.After(5 * time.Second)
MainTimeout ==
    /\ Alive
    /\ mainPc = "wait"
    /\ mainPc' = "exited"
    /\ UNCHANGED <<ctxDone, transClosed, panicked, running, captureVars,
                   mainOther>>

\* processLoop: an iteration that calls onSamples; the select at the head of
\* the loop did not find stopChan closed
ShutDeliver ==
    /\ Alive
    /\ stopChan = "open"
    /\ Deliver

\* processLoop: case <-c.stopChan: return
ConsExit ==
    /\ Alive
    /\ consPc = "idle"
    /\ stopChan = "closed"
    /\ consPc' = "done"
    /\ UNCHANGED <<confVars, pureVars, shutVars, ringVars, playbackInterrupt, running, vadSpeech,
                   vadPending, segsMade, consSeg, segmentChan, mu, sttVars,
                   llmVars, chatVars, ttsVars, playerVars, cbVars, captureVars,
                   ghostVars>>

\* sttProcessor: case <-ctx.Done(): return, at the head of the loop
SttExit ==
    /\ Alive
    /\ sttPc = "select"
    /\ ctxDone
    /\ sttPc' = "done"
    /\ UNCHANGED <<confVars, pureVars, shutVars, ringVars, playbackInterrupt, running, vadVars,
                   sttSeg, sttText, transcriptions, transcriptLog, textLog,
                   llmVars, chatVars,
                   ttsVars, playerVars, cbVars, captureVars, ghostVars>>

\* sttProcessor: case <-ctx.Done(): return, in the select around the send
SttSendExit ==
    /\ Alive
    /\ sttPc = "send"
    /\ ctxDone
    /\ sttPc' = "done"
    /\ UNCHANGED <<confVars, pureVars, shutVars, ringVars, playbackInterrupt, running, vadVars,
                   sttSeg, sttText, transcriptions, transcriptLog, textLog,
                   llmVars, chatVars,
                   ttsVars, playerVars, cbVars, captureVars, ghostVars>>

\* sttProcessor: case out <- text on the open channel
ShutSttSend ==
    /\ Alive
    /\ ~transClosed
    /\ SttSend

\* sttProcessor: case out <- text taken once main has closed the channel:
\* a send on a closed channel panics
SttSendPanic ==
    /\ Alive
    /\ sttPc = "send"
    /\ transClosed
    /\ panicked' = TRUE
    /\ UNCHANGED <<confVars, pureVars, mainPc, ctxDone, transClosed, ringVars,
                   playbackInterrupt, running, vadVars, sttVars, llmVars,
                   chatVars, ttsVars, playerVars, cbVars, captureVars,
                   ghostVars>>

\* llmProcessor: case <-ctx.Done(): return, or the receive finds the
\* channel closed and empty
LlmExit ==
    /\ Alive
    /\ llmPc = "select"
    /\ ctxDone \/ (transClosed /\ transcriptions = <<>>)
    /\ llmPc' = "done"
    /\ UNCHANGED <<confVars, pureVars, shutVars, ringVars, playbackInterrupt, running, vadVars,
                   sttVars, llmMsg, responses, replyLog, chatVars, ttsVars,
                   playerVars, cbVars, captureVars, ghostVars>>

\* llmProcessor: case <-ctx.Done(): return, in the select around a send
LlmSendExit ==
    /\ Alive
    /\ llmPc = "send"
    /\ ctxDone
    /\ llmPc' = "done"
    /\ UNCHANGED <<confVars, pureVars, shutVars, ringVars, playbackInterrupt, running, vadVars,
                   sttVars, llmMsg, responses, replyLog, chatVars, ttsVars,
                   playerVars, cbVars, captureVars, ghostVars>>

\* ttsProcessor: case <-ctx.Done(): return
TtsExit ==
    /\ Alive
    /\ ttsPc = "select"
    /\ ctxDone
    /\ ttsPc' = "done"
    /\ UNCHANGED <<playbackInterrupt, running, llmVars, ttsCur, ttsIdx,
                   wasInterrupted, playerVars, ghostVars, ttsOther>>

\* the steps of main() after the signal
MainStep ==
    MainStop \/ MainStopJoin \/ MainCancel \/ MainClose \/ MainJoined \/ MainTimeout

\* the steps of the capture consumer
ConsumerStep ==
    \/ ShutDeliver \/ ConsExit
    \/ (Alive /\ (AcceptLock \/ AcceptWaveform \/ AcceptSend))

\* the steps of sttProcessor and llmProcessor
ShutWorkerStep ==
    \/ SttExit \/ SttSendExit \/ ShutSttSend \/ SttSendPanic
    \/ LlmExit \/ LlmSendExit
    \/ (Alive /\ (SttReceive \/ SttTranscribe \/ SttClear))
    \/ (Alive /\ (LlmReceive \/ LlmChatOk \/ LlmChatError \/ LlmSend))

\* the steps of ttsProcessor, Player.Play included
ShutTtsStep == TtsExit \/ (Alive /\ (TtsStep \/ PlayStep))

NextShutdown ==
    \/ Signal \/ MainStep \/ ConsumerStep \/ ShutWorkerStep \/ ShutTtsStep
    \/ (Alive /\ CbStep)

SpecShutdown ==
    /\ InitShutdown /\ [][NextShutdown]_vars
    /\ WF_vars(MainStep) /\ WF_vars(ConsumerStep)
    /\ WF_vars(ShutWorkerStep) /\ WF_vars(ShutTtsStep)

\* C22: after the shutdown signal main() stops capture, cancels the
\* context, closes the transcript channel and returns after waiting at most
\* the 5 s ceiling for the workers, whatever the workers and the capture
\* consumer are doing when the signal arrives.
C22_ShutdownCompletes ==
    (mainPc = "stop") ~> (mainPc = "exited" /\ device = "stopped" /\ ctxDone /\ transClosed)

\* C38: once main has closed the transcript channel, sttProcessor leaves the
\* select around its send by the cancellation case only: no step sends on
\* the closed channel, which would panic.
C38_NoSendAfterClose ==
    [][(transClosed /\ sttPc = "send") => ~panicked']_vars

(***************************************************************************)
(* SpecWake: Recognizer.TranscribeSegment from the decoded text on, for    *)
(* every text of up to MaxTextLen characters.                              *)
(***************************************************************************)
InitWake ==
    /\ mode = InterruptWait
    /\ maxHistory = 1
    /\ InitPipeline /\ InitCapture /\ InitClient
    /\ replyText = <<>> /\ sentences = <<>> /\ splitPc = "done"
    /\ wakeWord \in WakeWords
    /\ resultText \in TextsUpTo(MaxTextLen)
    /\ forwarded = <<>>
    /\ wakePc = "call"
    /\ InitUnitsIdle

\* one call of TranscribeSegment
TranscribeSegment ==
    /\ wakePc = "call"
    /\ forwarded' = TranscribedText(resultText, wakeWord)
    /\ wakePc' = "done"
    /\ UNCHANGED <<confVars, wakeWord, resultText, replyText, sentences,
                   splitPc, unitVars, shutVars, ringVars,
                   playbackInterrupt, running, vadVars, sttVars, llmVars,
                   chatVars, ttsVars, playerVars, cbVars, captureVars,
                   ghostVars>>

SpecWake == InitWake /\ [][TranscribeSegment]_vars

\* the text with its first wake word, and the punctuation and whitespace
\* after it, taken out, and cleaned of leading punctuation and of whitespace
\* at both ends
WithoutWakeWord(txt, wake) ==
    LET idx == Index(ToLower(txt), wake)
        before == SubSeq(txt, 1, idx)
        after == SubSeq(txt, idx + Len(wake) + 1, Len(txt))
    IN  TrimSpace(TrimLeft(before \o TrimLeft(after, WakeCutset), WakeCutset))

\* C23: with a wake word configured, a transcript whose lower-cased text
\* does not contain it is dropped; a transcript that is only the wake word
\* (nothing is left once it and the punctuation after it are taken out) is
\* forwarded as "Hello"; any other is forwarded without the wake word and
\* the punctuation and whitespace after it, and what is forwarded does not
\* begin with the wake word.
C23_WakeWordGate ==
    (wakePc = "done" /\ wakeWord # <<>>) =>
        LET txt == TrimSpace(resultText)
        IN  IF ~Contains(ToLower(txt), wakeWord) THEN forwarded = <<>>
            ELSE IF WithoutWakeWord(txt, wakeWord) = <<>> THEN forwarded = Hello
            ELSE /\ forwarded = WithoutWakeWord(txt, wakeWord)
                 /\ Index(ToLower(forwarded), wakeWord) # 0

(***************************************************************************)
(* SpecSplit: SplitSentences on every reply of up to MaxReplyLen           *)
(* characters.                                                             *)
(***************************************************************************)
\* the characters of the replies
ReplyChars == {"a", " ", ".", "!", "?", "\n"}

\* c == '.' || c == '!' || c == '?' || c == '\n'
Terminators == {".", "!", "?", "\n"}

\* a boundary handling that resets the builder without the character read
dropsTerminator(txt, i, current, out) ==
    LET trimmed == TrimSpace(current)
    IN  [cur |-> <<>>,
         out |-> IF trimmed # <<>> THEN Append(out, trimmed) ELSE out]

\* SplitSentences: the body of the if at a sentence boundary, current already
\* holding the character read
atBoundary(txt, i, current, out) ==
    LET trimmed == TrimSpace(Append(current, txt[i]))
    IN  [cur |-> <<>>,
         out |-> IF trimmed # <<>> THEN Append(out, trimmed) ELSE out]

RECURSIVE splitFrom(_, _, _, _)
\* SplitSentences: the loop over the characters from position i on, then the
\* remaining text
splitFrom(txt, i, current, out) ==
    IF i > Len(txt)
    THEN LET trimmed == TrimSpace(current)
         IN  IF trimmed # <<>> THEN Append(out, trimmed) ELSE out
    ELSE IF txt[i] \in Terminators
    THEN LET b == atBoundary(txt, i, current, out)
         IN  splitFrom(txt, i + 1, b.cur, b.out)
    ELSE splitFrom(txt, i + 1, Append(current, txt[i]), out)

\* SplitSentences
SplitSentences(txt) == splitFrom(txt, 1, <<>>, <<>>)

InitSplit ==
    /\ mode = InterruptWait
    /\ maxHistory = 1
    /\ InitPipeline /\ InitCapture /\ InitClient
    /\ wakeWord = <<>> /\ resultText = <<>> /\ forwarded = <<>>
    /\ wakePc = "done"
    /\ replyText \in UNION {[1..k -> ReplyChars] : k \in 0..MaxReplyLen}
    /\ sentences = <<>>
    /\ splitPc = "call"
    /\ InitUnitsIdle

\* one call of SplitSentences
SplitReply ==
    /\ splitPc = "call"
    /\ sentences' = SplitSentences(replyText)
    /\ splitPc' = "done"
    /\ UNCHANGED <<confVars, wakeWord, resultText, forwarded, wakePc,
                   replyText, unitVars, shutVars, ringVars, playbackInterrupt, running,
                   vadVars, sttVars, llmVars, chatVars, ttsVars, playerVars,
                   cbVars, captureVars, ghostVars>>

SpecSplit == InitSplit /\ [][SplitReply]_vars

\* the positions of the reply at which a piece starts: the first character
\* and every character after a terminator
PieceStarts ==
    {i \in 1..Len(replyText) : i = 1 \/ replyText[i - 1] \in Terminators}

\* the piece that starts at position st: up to its terminator, or to the end
PieceAt(st) ==
    LET ends == {e \in st..Len(replyText) :
                    replyText[e] \in Terminators \/ e = Len(replyText)}
    IN  SubSeq(replyText, st, CHOOSE e \in ends : \A f \in ends : e <= f)

\* the pieces that hold more than white space, in order
Pieces ==
    LET kept == {st \in PieceStarts : TrimSpace(PieceAt(st)) # <<>>}
    IN  [k \in 1..Cardinality(kept) |->
            PieceAt(CHOOSE st \in kept :
                       Cardinality({t \in kept : t <= st}) = k)]

Last(str) == str[Len(str)]

\* C24: SplitSentences cuts the reply after every terminator ('.', '!',
\* '?', newline) and returns the non-empty pieces in order; each piece that
\* a terminator closed still ends with that terminator, for all four; a
\* reply without terminator and with some text gives exactly one piece.
C24_SplitKeepsTerminators ==
    (splitPc = "done") =>
        /\ Len(sentences) = Len(Pieces)
        /\ \A k \in 1..Len(Pieces) :
              /\ TrimSpace(sentences[k]) = TrimSpace(Pieces[k])
              /\ (Last(Pieces[k]) \in Terminators) =>
                    (Last(sentences[k]) = Last(Pieces[k]))
        /\ ((\A i \in 1..Len(replyText) : replyText[i] \notin Terminators)
              /\ TrimSpace(replyText) # <<>>) => (Len(sentences) = 1)

\* C24 as amended: the pieces are returned in order, each with the white
\* space at its ends removed; a piece closed by '.', '!' or '?' ends with
\* that terminator, a piece closed by a newline is returned without the
\* newline; a reply without terminator and with some text gives one piece.
C24_SplitTrimsPieces ==
    (splitPc = "done") =>
        /\ Len(sentences) = Len(Pieces)
        /\ \A k \in 1..Len(Pieces) :
              /\ sentences[k] = TrimSpace(Pieces[k])
              /\ (Last(Pieces[k]) \in {".", "!", "?"}) =>
                    (Last(sentences[k]) = Last(Pieces[k]))
              /\ (Last(Pieces[k]) = "\n") =>
                    (Last(sentences[k]) \notin WhiteSpace)
        /\ ((\A i \in 1..Len(replyText) : replyText[i] \notin Terminators)
              /\ TrimSpace(replyText) # <<>>) => (Len(sentences) = 1)

\* C24 witness: a reply with a piece closed by a newline and a piece closed
\* by another terminator was split in two.
C24_Witness ==
    /\ splitPc = "done"
    /\ Len(sentences) = 2
    /\ \E j, k \in 1..Len(Pieces) :
          Last(Pieces[j]) = "\n" /\ Last(Pieces[k]) \in {".", "!", "?"}

(***************************************************************************)
(* SpecStt: the capture consumer feeding the recognizer and sttProcessor,  *)
(* without and with a wake word configured.                                *)
(***************************************************************************)
InitStt ==
    /\ mode = InterruptAlways
    /\ maxHistory = 1
    /\ InitPipeline /\ InitCapture /\ InitClient
    /\ wakeWord \in WakeWords
    /\ resultText = <<>> /\ forwarded = <<>> /\ wakePc = "done"
    /\ replyText = <<>> /\ sentences = <<>> /\ splitPc = "done"
    /\ InitUnitsIdle

NextStt ==
    \/ Deliver \/ AcceptLock \/ AcceptWaveform \/ AcceptSend
    \/ SttReceive \/ SttTranscribe \/ SttSend \/ SttClear

SpecStt == InitStt /\ [][NextStt]_vars

\* C27: every value the STT worker sends on the transcript channel is
\* non-empty text; a segment whose transcription is empty produces no
\* transcript and the worker goes on to the next segment.
C27_OnlyNonEmptyTranscripts ==
    [][/\ (transcriptLog' # transcriptLog) =>
              /\ textLog'[Len(textLog')] # <<>>
              /\ TrimSpace(textLog'[Len(textLog')]) = textLog'[Len(textLog')]
       /\ (sttPc = "transcribe" /\ sttPc' # sttPc /\ sttText' = <<>>) =>
              /\ sttPc' = "select"
              /\ transcriptions' = transcriptions
              /\ transcriptLog' = transcriptLog]_vars

\* C27 witness: with a wake word configured the transcription of segment 1
\* was empty (or dropped) and the transcript of segment 2 was sent.
C27_Witness ==
    /\ wakeWord # <<>>
    /\ transcriptLog = <<2>>
    /\ Len(textLog) = 1 /\ textLog[1] # <<>>

(***************************************************************************)
(* SpecThreads: the thread counts from the command line to the models:     *)
(* Config.normalizeThreadCounts, then NewRecognizer and NewSynthesizer as  *)
(* main calls them.                                                        *)
(***************************************************************************)
Max(a, b) == IF a >= b THEN a ELSE b

InitThreads ==
    /\ mode = InterruptWait
    /\ maxHistory = 1
    /\ InitPipeline /\ InitCapture /\ InitClient
    /\ wakeWord = <<>> /\ resultText = <<>> /\ forwarded = <<>>
    /\ wakePc = "done"
    /\ replyText = <<>> /\ sentences = <<>> /\ splitPc = "done"
    /\ cpuCores \in 1..MaxCpus
    /\ flags \in [{"NumThreads", "VADThreads", "STTThreads", "TTSThreads"}
                    -> 0..MaxThreadFlag]
    /\ cfg = flags
    /\ modelThreads = [vad |-> 0, stt |-> 0, tts |-> 0]
    /\ cfgPc = "parsed"
    /\ IdleSlots /\ IdleLog

threadOther == <<confVars, slotVars, logVars, wakeWord, resultText, forwarded, wakePc, replyText,
                 sentences, splitPc, shutVars, ringVars, playbackInterrupt,
                 running, vadVars, sttVars, llmVars, chatVars, ttsVars,
                 playerVars, cbVars, captureVars, ghostVars>>

\* Config.normalizeThreadCounts
normalizeThreadCounts ==
    /\ cfgPc = "parsed"
    /\ LET NumThreads == IF cfg.NumThreads = 0
                             THEN Max(1, cpuCores \div 3)
                             ELSE cfg.NumThreads
       IN  cfg' = [NumThreads |-> NumThreads,
                   VADThreads |-> IF cfg.VADThreads = 0 THEN 1
                                  ELSE cfg.VADThreads,
                   STTThreads |-> IF cfg.STTThreads = 0 THEN NumThreads
                                  ELSE cfg.STTThreads,
                   TTSThreads |-> IF cfg.TTSThreads = 0 THEN NumThreads
                                  ELSE cfg.TTSThreads]
    /\ cfgPc' = "normalized"
    /\ UNCHANGED <<cpuCores, flags, modelThreads, threadOther>>

\* stt.NewRecognizer with the VADThreads and STTThreads main passes
NewRecognizer ==
    /\ cfgPc = "normalized"
    /\ modelThreads' = [modelThreads EXCEPT !.vad = cfg.VADThreads,
                                            !.stt = cfg.STTThreads]
    /\ cfgPc' = "recognizer"
    /\ UNCHANGED <<cpuCores, flags, cfg, threadOther>>

\* tts.NewSynthesizer: main passes TTSThreads, the model configuration gets
\* the literal 2
NewSynthesizer ==
    /\ cfgPc = "recognizer"
    /\ modelThreads' = [modelThreads EXCEPT !.tts = 2]
    /\ cfgPc' = "created"
    /\ UNCHANGED <<cpuCores, flags, cfg, threadOther>>

NextThreads == normalizeThreadCounts \/ NewRecognizer \/ NewSynthesizer

SpecThreads == InitThreads /\ [][NextThreads]_vars

\* C28: once the models are created: with every thread setting left at 0
\* the global thread count is max(1, C/3) for C online CPUs, the VAD model
\* has 1 thread and the recognizer model and the synthesizer model both have
\* the global count; a non-zero setting of a subsystem is the thread count of
\* its model.
C28_ThreadCounts ==
    (cfgPc = "created") =>
        /\ (\A f \in DOMAIN flags : flags[f] = 0) =>
               /\ cfg.NumThreads = Max(1, cpuCores \div 3)
               /\ modelThreads.vad = 1
               /\ modelThreads.stt = cfg.NumThreads
               /\ modelThreads.tts = cfg.NumThreads
        /\ (flags.VADThreads # 0) => (modelThreads.vad = flags.VADThreads)
        /\ (flags.STTThreads # 0) => (modelThreads.stt = flags.STTThreads)
        /\ (flags.TTSThreads # 0) => (modelThreads.tts = flags.TTSThreads)

(***************************************************************************)
(* SpecSlots: the capture ring as the array of slots it is, with push in   *)
(* the capture callback and pop and the copy in processLoop.  copy() moves *)
(* one sample a step, since neither copy is atomic.  The k-th chunk the    *)
(* device delivers holds the value k in every sample.                      *)
(***************************************************************************)
InitSlots ==
    /\ mode = InterruptWait
    /\ maxHistory = 1
    /\ InitPipeline /\ InitCapture /\ InitClient
    /\ wakeWord = <<>> /\ resultText = <<>> /\ forwarded = <<>>
    /\ wakePc = "done"
    /\ replyText = <<>> /\ sentences = <<>> /\ splitPc = "done"
    /\ IdleThreads /\ IdleLog
    /\ IdleSlots

slotOther == <<confVars, threadVars, logVars, wakeWord, resultText, forwarded, wakePc,
               replyText, sentences, splitPc, shutVars, ringVars,
               playbackInterrupt, running, vadVars, sttVars, llmVars,
               chatVars, ttsVars, playerVars, cbVars, capRing, procPc,
               procChunk, stopChan, device, callVars, ghostVars>>

\* a push whose full test lets one chunk too many in
RecvPushOffByOne ==
    /\ recvPc = "idle"
    /\ device = "started" /\ running
    /\ produced < MaxChunks
    /\ produced' = produced + 1
    /\ IF capHead - capTail > CaptureRingCap
          THEN /\ dropCount' = dropCount + 1
               /\ UNCHANGED <<recvPc, recvHead, recvI>>
          ELSE /\ recvPc' = "copy"
               /\ recvHead' = capHead
               /\ recvI' = 1
               /\ UNCHANGED dropCount
    /\ UNCHANGED <<capHead, capTail, chunks, popPc, popSlot, samplesCopy,
                   handedChunks, delivered, slotOther>>

\* onRecvFrames, up to the full test of push: a full ring counts the drop
\* and the callback returns
RecvPush ==
    /\ recvPc = "idle"
    /\ device = "started" /\ running
    /\ produced < MaxChunks
    /\ produced' = produced + 1
    /\ IF capHead - capTail >= CaptureRingCap
          THEN /\ dropCount' = dropCount + 1
               /\ UNCHANGED <<recvPc, recvHead, recvI>>
          ELSE /\ recvPc' = "copy"
               /\ recvHead' = capHead
               /\ recvI' = 1
               /\ UNCHANGED dropCount
    /\ UNCHANGED <<capHead, capTail, chunks, popPc, popSlot, samplesCopy,
                   handedChunks, delivered, slotOther>>

\* push: copy(slot.samples, samples), one sample
RecvCopy ==
    /\ recvPc = "copy"
    /\ chunks' = [chunks EXCEPT ![recvHead % CaptureRingCap][recvI] = produced]
    /\ IF recvI < ChunkLen
          THEN recvI' = recvI + 1 /\ UNCHANGED recvPc
          ELSE recvI' = 0 /\ recvPc' = "publish"
    /\ UNCHANGED <<capHead, capTail, recvHead, popPc, popSlot, samplesCopy,
                   handedChunks, produced, delivered, dropCount, slotOther>>

\* push: slot.len = n; rb.head.Add(1)
RecvPublish ==
    /\ recvPc = "publish"
    /\ capHead' = capHead + 1
    /\ recvPc' = "idle"
    /\ UNCHANGED <<capTail, chunks, recvHead, recvI, popPc, popSlot,
                   samplesCopy, handedChunks, produced, delivered, dropCount,
                   slotOther>>

\* processLoop: pop returns the slice into the slot at tail and has already
\* advanced tail
PopSlice ==
    /\ popPc = "pop"
    /\ stopChan = "open"
    /\ capHead # capTail
    /\ popSlot' = capTail % CaptureRingCap
    /\ capTail' = capTail + 1
    /\ samplesCopy' = <<>>
    /\ popPc' = IF running THEN "copy" ELSE "pop"
    /\ UNCHANGED <<capHead, chunks, recvPc, recvHead, recvI, handedChunks,
                   produced, delivered, dropCount, slotOther>>

\* processLoop: copy(samplesCopy, samples), one sample
PopCopy ==
    /\ popPc = "copy"
    /\ samplesCopy' = Append(samplesCopy, chunks[popSlot][Len(samplesCopy) + 1])
    /\ popPc' = IF Len(samplesCopy) + 1 < ChunkLen THEN "copy" ELSE "call"
    /\ UNCHANGED <<capHead, capTail, chunks, recvPc, recvHead, recvI, popSlot,
                   handedChunks, produced, delivered, dropCount, slotOther>>

\* processLoop: c.onSamples(samplesCopy)
OnSamples ==
    /\ popPc = "call"
    /\ handedChunks' = Append(handedChunks, samplesCopy)
    /\ delivered' = delivered + 1
    /\ samplesCopy' = <<>>
    /\ popPc' = "pop"
    /\ UNCHANGED <<capHead, capTail, chunks, recvPc, recvHead, recvI, popSlot,
                   produced, dropCount, slotOther>>

NextSlots ==
    \/ RecvPush \/ RecvCopy \/ RecvPublish
    \/ PopSlice \/ PopCopy \/ OnSamples

SpecSlots == InitSlots /\ [][NextSlots]_vars

\* C29: the capture callback never writes into the slot the consumer is
\* still copying its popped chunk from, and every chunk given to onSamples
\* holds the samples of one pushed chunk only.
C29_SlotReusedAfterCopy ==
    /\ ~(/\ recvPc = "copy" /\ popPc = "copy"
         /\ recvHead % CaptureRingCap = popSlot)
    /\ \A i \in 1..Len(handedChunks) :
          \E k \in 1..MaxChunks :
             handedChunks[i] = [j \in 1..ChunkLen |-> k]

\* C32: the capture ring never holds fewer than 0 or more than
\* CaptureRingCap chunks, 0 <= head - tail <= N; head moves only when the
\* callback's push publishes a chunk, by one, and tail only when the
\* consumer's pop takes one, by one.
C32_CaptureOccupancyInBounds ==
    /\ [](0 <= capHead - capTail /\ capHead - capTail <= CaptureRingCap)
    /\ [][/\ (capHead' # capHead) =>
                (recvPc = "publish" /\ recvPc' = "idle" /\ capHead' = capHead + 1)
          /\ (capTail' # capTail) =>
                (popPc = "pop" /\ popPc' = "copy" /\ capTail' = capTail + 1)]_vars

\* C32 witness: the ring is full again after the consumer has popped a chunk,
\* and a chunk that found it full was dropped.
C32_Witness ==
    /\ capHead - capTail = CaptureRingCap
    /\ capTail > 0
    /\ dropCount > 0

(***************************************************************************)
(* SpecSegments: Recognizer.AcceptWaveform in the capture consumer with    *)
(* the segment channel one short of full: the segments -(SegmentChanCap-1) *)
(* .. -1 of earlier utterances are queued and sttProcessor, busy until     *)
(* now, works them off while MaxSegments more utterances are spoken.       *)
(***************************************************************************)
InitSegments ==
    /\ mode = InterruptAlways
    /\ maxHistory = 1
    /\ playbackInterrupt = FALSE
    /\ running = TRUE
    /\ vadSpeech = FALSE /\ vadPending = 0 /\ segsMade = 0
    /\ consPc = "idle" /\ consSeg = 0
    /\ segmentChan = [i \in 1..(SegmentChanCap - 1) |-> i - SegmentChanCap]
    /\ mu = "free"
    /\ sttPc = "select" /\ sttSeg = 0 /\ sttText = <<>>
    /\ transcriptions = <<>> /\ transcriptLog = <<>> /\ textLog = <<>>
    /\ llmPc = "select" /\ llmMsg = NoReply
    /\ responses = <<>> /\ replyLog = <<>>
    /\ InitPlayer /\ InitMain /\ InitCapture /\ InitClient /\ InitIdle

NextSegments ==
    \/ Deliver \/ AcceptLock \/ AcceptWaveform \/ AcceptSend
    \/ SttReceive \/ SttTranscribe \/ SttSend \/ SttClear

SpecSegments == InitSegments /\ [][NextSegments]_vars

\* a step of the consumer that ends the send of AcceptWaveform
SendStep == consPc = "send" /\ consPc' = "idle"

\* C34: AcceptWaveform does not hold r.mu when it sends a completed segment,
\* the send is always possible at once, and it appends the segment to the
\* channel if there is room and otherwise leaves the channel as it is: the
\* new segment is dropped, the queued ones stay, in order.
C34_SendUnlockedDropsNew ==
    /\ []((consPc = "send") => (mu # "consumer" /\ ENABLED AcceptSend))
    /\ [][SendStep =>
            segmentChan' = IF Len(segmentChan) < SegmentChanCap
                           THEN Append(segmentChan, consSeg)
                           ELSE segmentChan]_vars

\* C34 witness: segment 1 filled the channel, segment 2 was completed and
\* dropped, and no segment has been received meanwhile.
C34_Witness ==
    /\ Len(segmentChan) = SegmentChanCap
    /\ segmentChan[SegmentChanCap] = 1
    /\ segsMade = 2 /\ vadPending = 0 /\ consPc = "idle"
    /\ sttPc = "select"

\* C35 as stated: a segment completed while the channel is full replaces the
\* oldest queued one.
C35_FullChannelDropsOldest ==
    [][(SendStep /\ Len(segmentChan) = SegmentChanCap) =>
          segmentChan' = Append(Tail(segmentChan), consSeg)]_vars

\* C35: a segment completed while the channel is full is itself the one
\* dropped: the channel keeps the segments it held, the oldest included.
C35_FullChannelDropsNewest ==
    [][(SendStep /\ Len(segmentChan) = SegmentChanCap) =>
          /\ segmentChan' = segmentChan
          /\ \A i \in 1..Len(segmentChan') : segmentChan'[i] # consSeg]_vars

\* C35 witness: segment 2 was dropped at the full channel; the oldest
\* segment stayed queued and was received by sttProcessor afterwards.
C35_Witness ==
    /\ segsMade = 2 /\ vadPending = 0 /\ consPc = "idle"
    /\ sttSeg = 1 - SegmentChanCap
    /\ Len(segmentChan) = SegmentChanCap - 1
    /\ segmentChan[SegmentChanCap - 1] = 1

(***************************************************************************)
(* SpecDropLog: the capture callback with the log line that push writes    *)
(* on every DropLogEvery-th dropped chunk, and the log lines of the        *)
(* pipeline's goroutines.  log.Printf holds the logger's mutex while it    *)
(* writes the line to standard error.  processLoop is inside onSamples     *)
(* (the recognizer) for the whole run, which is how the ring comes to be   *)
(* full.                                                                   *)
(***************************************************************************)
dropOther == <<confVars, threadVars, slotVars, wakeWord, resultText, forwarded,
               wakePc, replyText, sentences, splitPc, shutVars, ringVars,
               playbackInterrupt, vadVars, sttVars, llmVars, chatVars,
               ttsVars, playerVars, cbVars, ghostVars>>

\* onRecvFrames up to the end of push, or to push's log.Printf: a full ring
\* counts the drop, and every DropLogEvery-th drop is logged
OnRecvFramesPush ==
    /\ device = "started"
    /\ running
    /\ recvLogPc = "idle"
    /\ dropCount < DropLogEvery * MaxDropLogs
    /\ produced' = produced + 1
    /\ IF Len(capRing) >= CaptureRingCap
          THEN /\ dropCount' = dropCount + 1
               /\ recvLogPc' = IF (dropCount + 1) % DropLogEvery = 0
                               THEN "printf" ELSE "idle"
               /\ UNCHANGED capRing
          ELSE /\ capRing' = Append(capRing, produced + 1)
               /\ UNCHANGED <<dropCount, recvLogPc>>
    /\ UNCHANGED <<logMu, running, procPc, procChunk, delivered, stopChan,
                   device, callVars, dropOther>>

\* push: log.Printf locks the logger's mutex
PushLogLock ==
    /\ recvLogPc = "printf"
    /\ logMu = "free"
    /\ logMu' = "callback"
    /\ recvLogPc' = "write"
    /\ UNCHANGED <<captureVars, running, dropOther>>

\* push: log.Printf has written the line and unlocks; push returns false
PushLogWrite ==
    /\ recvLogPc = "write"
    /\ logMu' = "free"
    /\ recvLogPc' = "idle"
    /\ UNCHANGED <<captureVars, running, dropOther>>

\* a log.Printf of one of the pipeline's goroutines locks the mutex
WorkerLogLock ==
    /\ logMu = "free"
    /\ logMu' = "worker"
    /\ UNCHANGED <<recvLogPc, captureVars, running, dropOther>>

\* and unlocks it when the line is written
WorkerLogWrite ==
    /\ logMu = "worker"
    /\ logMu' = "free"
    /\ UNCHANGED <<recvLogPc, captureVars, running, dropOther>>

NextDropLog ==
    \/ OnRecvFramesPush \/ PushLogLock \/ PushLogWrite
    \/ WorkerLogLock \/ WorkerLogWrite

SpecDropLog == InitCap /\ [][NextDropLog]_vars

\* C36: the capture callback never holds a mutex and never waits for one,
\* the path that counts and logs a drop included.
C36_CallbackNeverLocks ==
    /\ logMu # "callback"
    /\ (recvLogPc = "printf") => (logMu = "free")

====
